---- MODULE Spec2Model ----
(***************************************************************************)
(* A model of the Limitless Audio Format player of openal-soft             *)
(* (examples/allafplay.cpp): the header parser LoadLAF, the chunk reader   *)
(* LafStream::readChunk, the demultiplexer LafStream::prepareTrack with    *)
(* copySamples, the position decoder convertPositions, and the playback    *)
(* loop of PlayLAF run against an OpenAL streaming source per channel.     *)
(*                                                                         *)
(* Buffers are sequences of bytes.  A byte that the program writes itself  *)
(* is its value (0, 0x80).  The contents of the file are symbolic: the     *)
(* byte k of the sample of frame f of track t in the c-th chunk is the     *)
(* number FileByte(c, t, f, k), which is at least 256, so that the origin  *)
(* of every byte that reaches the sink can be read off the byte.           *)
(***************************************************************************)
EXTENDS Integers, Sequences, FiniteSets, TLC

(***************************************************************************)
(* Bounds of the model.                                                    *)
(***************************************************************************)
\* Sample rates 0..MaxRate are tried in Channels mode.
MaxRate == 2
\* The declared sample count spans at most MaxChunks one-second chunks.
MaxChunks == 3
\* Track counts 0..MaxTracks are tried (besides the over-limit count).
MaxTracks == 2

(***************************************************************************)
(* Program constants.                                                      *)
(***************************************************************************)
\* constexpr auto FramesPerPos = 48_uz
FramesPerPos == 48
\* if(laf->mNumTracks > 256) throw
TrackLimit == 256
\* std::array<uint8_t,32> mEnabledTracks
BitmapBytes == 32
\* the number of values of a uint8_t of mEnabledTracks
ByteRange == 256
\* float(in) / 127.0f
Scale8 == 127
\* float(in) / 32767.0f
Scale16 == 32767
\* char(0x80), the silence of unsigned 8-bit samples
Silence8 == 128
\* The first symbolic file byte: above every literal byte.
FileBase == ByteRange

Qualities == {"s8", "s16", "f32", "s24"}

(***************************************************************************)
(* Arithmetic helpers: the C++ bit operators on unsigned values.           *)
(***************************************************************************)
Min(a, b) == IF a < b THEN a ELSE b

\* x >> n
ShiftRight(x, n) == x \div (2 ^ n)

\* (b >> i) & 1
TestBit(b, i) == (b \div (2 ^ i)) % 2

\* b & ((1 << i) - 1)
MaskBelow(b, i) == b % (2 ^ i)

\* al::popcount(unsigned(in)) of one byte
popcount(b) ==
    TestBit(b, 0) + TestBit(b, 1) + TestBit(b, 2) + TestBit(b, 3)
    + TestBit(b, 4) + TestBit(b, 5) + TestBit(b, 6) + TestBit(b, 7)

RECURSIVE SumPop(_, _)
\* std::accumulate of popcount over the first n bytes of the bitmap
SumPop(bits, n) == IF n = 0 THEN 0 ELSE SumPop(bits, n - 1) + popcount(bits[n])

\* The element at 0-based index i of a buffer.
At(buf, i) == buf[i + 1]

(***************************************************************************)
(* Quality helpers.                                                        *)
(***************************************************************************)
BytesFromQuality(quality) ==
    CASE quality = "s8" -> 1
      [] quality = "s16" -> 2
      [] quality = "f32" -> 4
      [] quality = "s24" -> 3
      [] OTHER -> 4

\* FormatFromQuality throws for 24-bit samples.
FormatFromQualityThrows(quality) == quality = "s24"

(***************************************************************************)
(* The contents of the file's chunks.                                      *)
(***************************************************************************)
\* The tracks whose bit is set in a bitmap, in ascending order.
EnabledSeq(bits) ==
    SelectSeq([t \in 1..(BitmapBytes * 8) |-> t - 1],
              LAMBDA t : TestBit(bits[ShiftRight(t, 3) + 1], t % 8) = 1)

\* Byte k of the sample of frame f of track t in chunk c.
FileByte(c, t, f, k) == FileBase + k + 4 * (t + (TrackLimit + 1) * (f + 1024 * c))

\* The sample block of chunk c as the file holds it: rate frames, each the
\* samples of the enabled tracks in ascending track order (interleaved).
FileChunk(c, bits, rate, bps) ==
    LET en == EnabledSeq(bits)
        ne == Len(en)
    IN  [p \in 1..(rate * bps * ne) |->
            FileByte(c, en[(((p - 1) \div bps) % ne) + 1],
                     ((p - 1) \div bps) \div ne, (p - 1) % bps)]

\* The bytes of one track of chunk c, frames 0..n-1 (what demultiplexing
\* the chunk should give).
TrackBytes(c, t, n, bps) ==
    [p \in 1..(n * bps) |-> FileByte(c, t, (p - 1) \div bps, (p - 1) % bps)]

(***************************************************************************)
(* LafStream::readChunk.                                                   *)
(*   L     the stream descriptor                                           *)
(*   good  whether mInFile is still readable (no earlier short read)       *)
(*   cur   mCurrentSample, chunk  mSampleChunk                             *)
(*   c     the number of the chunk at the file position                    *)
(*   bits  the bitmap bytes the file holds there (BitmapBytes long, zero   *)
(*         beyond the bytes of the bitmap)                                 *)
(*   avail the number of bytes left in the file, or -1 for enough          *)
(*   ubOk  the outcome of the assertion when it reads mEnabledTracks[-1]   *)
(*   lead  the bytes of the header still ahead of the file position: while *)
(*         there are any the reads take them, and bits and avail are not   *)
(*         looked at (a read they do not cover is tried on a file that     *)
(*         ends with its header)                                           *)
(***************************************************************************)
BitmapLen(numTracks) == ShiftRight(numTracks + 7, 3)

\* alassert(mEnabledTracks[((mNumTracks+7)>>3) - 1] < (1u<<(mNumTracks&7)))
BitmapAssert(enabled, numTracks, ubOk) ==
    IF BitmapLen(numTracks) = 0
    THEN ubOk
    ELSE enabled[BitmapLen(numTracks)] < 2 ^ (numTracks % 8)

\* mCurrentSample >= mSampleCount.  mCurrentSample stays below 2^40 in the
\* model, so a count with bits from 2^40 up is never reached.
isAtEnd(L, cur) == L.mSampleCountHigh = 0 /\ cur >= L.mSampleCount

\* Variant of ChunkSamples that forgets the remainder: every call returns a
\* whole chunk.
ChunkSamplesWhole(L, cur) == L.mSampleRate

\* std::min(uint64_t{mSampleRate}, mSampleCount-mCurrentSample)
ChunkSamples(L, cur) ==
    IF L.mSampleCountHigh > 0 THEN L.mSampleRate
    ELSE Min(L.mSampleRate, L.mSampleCount - cur)

readChunk(L, good, cur, chunk, c, bits, avail, ubOk, lead) ==
    LET nb       == BitmapLen(L.mNumTracks)
        bps      == BytesFromQuality(L.mQuality)
        left     == IF Len(lead) > 0 THEN Len(lead) ELSE avail
        gotBits  == IF ~good THEN 0 ELSE IF left < 0 THEN nb ELSE Min(nb, left)
        enabled  == [i \in 1..BitmapBytes |->
                        IF i > gotBits THEN 0
                        ELSE IF Len(lead) > 0 THEN lead[i] ELSE bits[i]]
        good1    == good /\ gotBits = nb
        nEnabled == SumPop(enabled, BitmapBytes)
        toread   == L.mSampleRate * bps * nEnabled
        data     == IF Len(lead) > 0
                    THEN [p \in 1..(Len(lead) - nb) |-> lead[nb + p]]
                    ELSE FileChunk(c, bits, L.mSampleRate, bps)
        gotData  == IF ~good1 THEN 0
                    ELSE IF left < 0 THEN toread ELSE Min(toread, left - nb)
        nsamples == ChunkSamples(L, cur)
    IN  [ mEnabledTracks |-> enabled,
          mNumEnabled    |-> nEnabled,
          assertOk       |-> BitmapAssert(enabled, L.mNumTracks, ubOk),
          mSampleChunk   |-> [p \in 1..Len(chunk) |->
                                 IF p <= gotData THEN data[p] ELSE chunk[p]],
          good           |-> good1 /\ gotData = toread,
          bitsShort      |-> good /\ ~good1,
          short          |-> good /\ ~(good1 /\ gotData = toread),
          numsamples     |-> nsamples,
          mCurrentSample |-> cur + nsamples,
          aheadBits      |-> [k \in 1..(Len(lead) - gotBits) |-> lead[gotBits + k]],
          ahead          |-> [k \in 1..(Len(lead) - gotBits - gotData) |->
                                 lead[gotBits + gotData + k]] ]

(***************************************************************************)
(* LafStream::prepareTrack and copySamples.  mSampleLine is the last       *)
(* mSampleRate*BytesFromQuality bytes of mSampleChunk.                     *)
(***************************************************************************)
\* mEnabledTracks[trackidx>>3] & (1_uz<<(trackidx&7))
TrackEnabled(enabled, trackidx) ==
    TestBit(enabled[ShiftRight(trackidx, 3) + 1], trackidx % 8) = 1

\* Variant of TrackColumn that does not skip the disabled tracks.
TrackColumnRaw(enabled, trackidx) == trackidx

\* Variant of TrackColumn that counts the track itself as well.
TrackColumnThrough(enabled, trackidx) ==
    popcount(MaskBelow(enabled[ShiftRight(trackidx, 3) + 1], (trackidx % 8) + 1))
    + SumPop(enabled, ShiftRight(trackidx, 3))

\* The index of the track among the enabled tracks (the lambda idx).
TrackColumn(enabled, trackidx) ==
    popcount(MaskBelow(enabled[ShiftRight(trackidx, 3) + 1], trackidx % 8))
    + SumPop(enabled, ShiftRight(trackidx, 3))

\* Variant of SilenceByte that writes zero for every quality.
SilenceZero(quality) == 0

\* The silence byte std::fill_n writes.
SilenceByte(quality) == IF quality = "s8" THEN Silence8 ELSE 0

\* assert(idx < step) of copySamples, step being mNumEnabled.
CopyAssert(idx, step) == idx < step

\* copySamples<T>: output element j is input element j*step + idx; an element
\* is bps bytes.  The result is the line (lineLen bytes) after the copy.
copySamples(line, chunk, idx, count, step, bps) ==
    [p \in 1..Len(line) |->
        IF p <= count * bps
        THEN At(chunk, (((p - 1) \div bps) * step + idx) * bps + ((p - 1) % bps))
        ELSE line[p]]

\* Variant of Todo that always hands out a whole chunk.
TodoWholeChunk(rate, count) == rate

\* const auto todo = std::min(size_t{mSampleRate}, count)
Todo(rate, count) == Min(rate, count)

prepareTrack(L, enabled, nEnabled, chunk, trackidx, count) ==
    LET bps     == BytesFromQuality(L.mQuality)
        lineLen == L.mSampleRate * bps
        lineOff == Len(chunk) - lineLen
        line    == [p \in 1..lineLen |-> chunk[lineOff + p]]
        todo    == Todo(L.mSampleRate, count)
        on      == TrackEnabled(enabled, trackidx)
        throws  == on /\ L.mQuality = "s24"
        idx     == IF on THEN TrackColumn(enabled, trackidx) ELSE 0
        copies  == on /\ ~throws
        asserts == copies => CopyAssert(idx, nEnabled)
        line1   == IF throws \/ ~asserts THEN line
                   ELSE IF on
                   THEN copySamples(line, chunk, idx, todo, nEnabled, bps)
                   ELSE [p \in 1..lineLen |-> SilenceByte(L.mQuality)]
    IN  [ throws       |-> throws,
          copies       |-> copies,
          assertOk     |-> asserts,
          idx          |-> idx,
          step         |-> nEnabled,
          mSampleChunk |-> [p \in 1..Len(chunk) |->
                               IF p > lineOff THEN line1[p - lineOff] ELSE chunk[p]],
          span         |-> [p \in 1..(todo * bps) |-> line1[p]] ]

(***************************************************************************)
(* LafStream::convertPositions.  A float is the record of the raw sample   *)
(* bytes it was converted from and the divisor applied to them.            *)
(***************************************************************************)
\* The field "from" is the number of the chunk the sample was read in
\* (0: the float was never written).
ZeroFloat == [raw |-> <<>>, div |-> 1, from |-> 0]

convertPositions(quality, dst, src, c) ==
    LET bps == BytesFromQuality(quality)
        n   == Len(src) \div bps
        div == CASE quality = "s8" -> Scale8
                 [] quality = "s16" -> Scale16
                 [] OTHER -> 1
    IN  IF quality = "s24" THEN dst
        ELSE [j \in 1..Len(dst) |->
                 IF j <= n
                 THEN [raw  |-> [k \in 1..bps |-> src[(j - 1) * bps + k]],
                       div  |-> div,
                       from |-> c]
                 ELSE dst[j]]

(***************************************************************************)
(* LoadLAF.  A file header is the record                                   *)
(*   magicOk, tagOk  whether the 9 and 4 marker bytes are "LIMITLESS" and  *)
(*                   "HEAD"                                                *)
(*   quality, mode   the two code bytes                                    *)
(*   numTracks       the 32-bit track count                                *)
(*   tracks          the track records, each "audio" (finite angles),      *)
(*                   "pos" (elevation NaN, azimuth 0.0) or "bad" (another  *)
(*                   non-finite pair)                                      *)
(*   angles          the bits of the elevation (e) and the azimuth (a) of  *)
(*                   each track record                                     *)
(*   rate, count, countHigh                                                *)
(*                   the footer: the rate, and the 64-bit count as its     *)
(*                   value below 2^40 and its bits from 2^40 up            *)
(*   size            the number of bytes of the header the file holds      *)
(* alassert (common/alassert.h) is checked in every build and ends the     *)
(* process.  The read of the track records is the argument of the assert   *)
(* of line 414: a build with NDEBUG defined (ndebug) does not make it.     *)
(***************************************************************************)
MagicLen == 9
HeadLen == 10
TrackRecLen == 9
FooterLen == 12

HeaderLen(numTracks) == MagicLen + HeadLen + TrackRecLen * numTracks + FooterLen

QualityOf(code) ==
    CASE code = 0 -> "s8"
      [] code = 1 -> "s16"
      [] code = 2 -> "f32"
      [] code = 3 -> "s24"
      [] OTHER -> "invalid"

ModeOf(code) ==
    CASE code = 0 -> "Channels"
      [] code = 1 -> "Objects"
      [] OTHER -> "invalid"

\* if(laf->mNumTracks > 256) throw
TooManyTracks(numTracks) == numTracks > TrackLimit

\* x - 1 in size_t arithmetic.  size_t is 64 bits wide; the model keeps 24,
\* which no count of the model (at most 257) distinguishes from 64.
SizeBits == 24
SizeDec(x) == (x - 1) % (2 ^ SizeBits)

\* Variant of PosCountOk that rounds the channels' sixteenth down.
PosCountOkFloor(nChannels, nPos) == nChannels \div 16 = nPos

\* alassert(((laf->mChannels.size()-1)>>4) == laf->mPosTracks.size()-1)
PosCountOk(nChannels, nPos) == ShiftRight(SizeDec(nChannels), 4) = SizeDec(nPos)

\* Variant of RateOk that lets every Objects-mode rate through.
RateOkAny(mode, rate) == mode \in {"Channels", "Objects"}

\* alassert(mMode == Mode::Channels || (mSampleRate%FramesPerPos) == 0)
RateOk(mode, rate) == mode = "Channels" \/ rate % FramesPerPos = 0

\* alassert(laf->mMode == Mode::Objects)
PosAllowed(mode) == mode = "Objects"

\* alassert(i != 0)
NotFirst(i) == i # 0

\* alassert(laf->mPosTracks.empty())
NoPosYet(nPos) == nPos = 0

RECURSIVE Classify(_, _, _)
\* The loop over the track records: the counts of channels and position
\* tracks after the first n records, or the assertion that failed.
Classify(tracks, mode, n) ==
    IF n = 0 THEN [err |-> "", nChannels |-> 0, nPos |-> 0]
    ELSE LET prev == Classify(tracks, mode, n - 1)
             kind == tracks[n]
         IN  IF prev.err # "" THEN prev
             ELSE IF kind = "pos"
             THEN IF ~PosAllowed(mode) THEN [prev EXCEPT !.err = "pos-in-channels"]
                  ELSE IF ~NotFirst(n - 1) THEN [prev EXCEPT !.err = "pos-first"]
                  ELSE [prev EXCEPT !.nPos = prev.nPos + 1]
             ELSE IF ~NoPosYet(prev.nPos) THEN [prev EXCEPT !.err = "audio-after-pos"]
                  ELSE IF kind # "audio" THEN [prev EXCEPT !.err = "not-finite"]
                  ELSE [prev EXCEPT !.nChannels = prev.nChannels + 1]

\* The four bytes of a 32-bit value, lowest first.
LE4(x) == << x % 256, (x \div 256) % 256, (x \div 65536) % 256, x \div 16777216 >>

\* The 32-bit value of the four bytes at offset i (from 0) of a function
\* from offsets to bytes.
Word(byteAt(_), i) ==
    byteAt(i) + 256 * byteAt(i + 1) + 65536 * byteAt(i + 2) + 16777216 * byteAt(i + 3)

\* The bits of the elevation a track record of each kind is written with:
\* 0.0 for an audio track, a quiet NaN for a position marker, +infinity for
\* a record that is neither.
ElevationBits(kind) ==
    CASE kind = "audio" -> 0
      [] kind = "pos" -> 2143289344
      [] OTHER -> 2139095040

\* The angles of a record of each kind: the azimuth is 0.0.
AngleBits(kind) == [e |-> ElevationBits(kind), a |-> 0]

\* The nine bytes of a track record: elevation, azimuth, LFE flag (0).
TrackRecord(an) == LE4(an.e) \o LE4(an.a) \o <<0>>

\* The twelve bytes of the footer: the rate, then the 64-bit count, whose
\* bits from 2^40 up are kept apart (countHigh).
FooterBytes(f) ==
    LE4(f.rate) \o LE4(f.count) \o <<0>> \o SubSeq(LE4(f.countHigh), 1, 3)

\* The byte at offset k (from 0) after the track count: the track records,
\* then the footer.
HeaderByte(f, k) ==
    IF k < TrackRecLen * f.numTracks
    THEN TrackRecord(f.angles[(k \div TrackRecLen) + 1])[(k % TrackRecLen) + 1]
    ELSE FooterBytes(f)[k - TrackRecLen * f.numTracks + 1]

\* The twelve bytes at the place of the first track record read as the
\* footer: the rate, the count below 2^40 (its fifth byte is the LFE flag of
\* the first record, 0) and the count's bits from 2^40 up.
RateAtTracks(f) == Word(LAMBDA k : HeaderByte(f, k), 0)

CountAtTracks(f) == Word(LAMBDA k : HeaderByte(f, k), 4)

CountHighAtTracks(f) ==
    HeaderByte(f, 9) + 256 * HeaderByte(f, 10) + 65536 * HeaderByte(f, 11)

\* assert(laf->mInFile.read(chandata.data(), ...)) and what the code after
\* it finds: with the read made, the file as it is; without it, chandata as
\* it was constructed (every record zeros: finite angles, an audio track)
\* and the file position still at the track records, where the footer is
\* then read.
AfterTrackRead(f, ndebug) ==
    IF ~ndebug THEN f
    ELSE [f EXCEPT !.tracks = [i \in 1..f.numTracks |-> "audio"],
                   !.rate = RateAtTracks(f),
                   !.count = CountAtTracks(f),
                   !.countHigh = CountHighAtTracks(f),
                   !.size = f.size + TrackRecLen * f.numTracks]

\* The bytes of the header that are still ahead of the file position when
\* LoadLAF returns: none when the track records were read, otherwise what
\* follows the twelve bytes read as the footer, as far as the file goes.
HeaderAhead(f, ndebug) ==
    IF ~ndebug THEN <<>>
    ELSE LET last == Min(TrackRecLen * f.numTracks + FooterLen,
                         f.size - MagicLen - HeadLen)
         IN  [k \in 1..(last - FooterLen) |-> HeaderByte(f, FooterLen + k - 1)]

NoStream ==
    [ mQuality |-> "s8", mMode |-> "Channels", mSampleRate |-> 0,
      mSampleCount |-> 0, mSampleCountHigh |-> 0, mNumTracks |-> 0,
      nChannels |-> 0, nPos |-> 0 ]

\* The stage at which LoadLAF gives up on the file ("" when it returns).
\* The resizes of lines 483-486 throw std::bad_alloc when the allocator
\* has not got the memory they ask for (nomem); with a rate of 0 they ask
\* for none.
LoadError(f, ndebug, nomem) ==
    LET g   == AfterTrackRead(f, ndebug)
        cls == Classify(g.tracks, ModeOf(g.mode), g.numTracks)
    IN  CASE f.size < MagicLen -> "magic-read"
          [] ~f.magicOk -> "magic"
          [] f.size < MagicLen + HeadLen -> "header-read"
          [] ~f.tagOk -> "tag"
          [] QualityOf(f.quality) = "invalid" -> "quality"
          [] ModeOf(f.mode) = "invalid" -> "mode"
          [] TooManyTracks(f.numTracks) -> "too-many-tracks"
          [] g.size < MagicLen + HeadLen + TrackRecLen * g.numTracks -> "tracks-read"
          [] cls.err # "" -> cls.err
          [] ModeOf(g.mode) = "Objects" /\ ~PosCountOk(cls.nChannels, cls.nPos)
               -> "pos-count"
          [] g.size < HeaderLen(g.numTracks) -> "footer-read"
          [] ~RateOk(ModeOf(g.mode), g.rate) -> "rate"
          [] nomem /\ g.rate > 0 -> "bad-alloc"
          [] OTHER -> ""

\* The stream LoadLAF returns for a file it accepts.  mSampleCount is the
\* count below 2^40 and mSampleCountHigh its bits from 2^40 up.
LoadLAF(f, ndebug) ==
    LET g   == AfterTrackRead(f, ndebug)
        cls == Classify(g.tracks, ModeOf(g.mode), g.numTracks)
    IN  [ mQuality         |-> QualityOf(g.quality),
          mMode            |-> ModeOf(g.mode),
          mSampleRate      |-> g.rate,
          mSampleCount     |-> g.count,
          mSampleCountHigh |-> g.countHigh,
          mNumTracks       |-> g.numTracks,
          nChannels        |-> cls.nChannels,
          nPos             |-> cls.nPos ]

\* mSampleChunk.resize(mSampleRate * BytesFromQuality * (mNumTracks+1))
InitialChunk(L) ==
    [p \in 1..(L.mSampleRate * BytesFromQuality(L.mQuality) * (L.mNumTracks + 1)) |-> 0]

\* Variant of InitialWindows that makes room for one second only.
InitialWindowsShort(L) ==
    [i \in 1..L.nPos |-> [j \in 1..L.mSampleRate |-> ZeroFloat]]

\* mPosTracks[i].resize(mSampleRate*2, 0.0f)
InitialWindows(L) ==
    [i \in 1..L.nPos |-> [j \in 1..(L.mSampleRate * 2) |-> ZeroFloat]]

(***************************************************************************)
(* The files tried.                                                        *)
(***************************************************************************)
AudioTracks(n) == [i \in 1..n |-> "audio"]

Header(q, m, tracks, rate, count) ==
    [ magicOk |-> TRUE, tagOk |-> TRUE, quality |-> q, mode |-> m,
      numTracks |-> Len(tracks), tracks |-> tracks,
      angles |-> [i \in 1..Len(tracks) |-> AngleBits(tracks[i])],
      rate |-> rate, count |-> count, countHigh |-> 0,
      size |-> HeaderLen(Len(tracks)) ]

\* Sample counts of at most MaxChunks chunks: whole seconds, and one frame
\* more.
SampleCounts(rate) ==
    IF rate = 0 THEN {0, 1}
    ELSE {c \in 0..(rate * MaxChunks) : c % rate \in {0, 1}}

\* Channels mode, 16-bit: every track count, rate and sample count.
ChannelsFiles ==
    UNION { { Header(1, 0, AudioTracks(n), r, c) :
                n \in 0..MaxTracks, c \in SampleCounts(r) }
          : r \in 0..MaxRate }

\* Channels mode, one track at the highest rate: every quality.
QualityFiles ==
    { Header(q, 0, AudioTracks(1), MaxRate, c) :
        q \in 0..3, c \in SampleCounts(MaxRate) }

\* The channels of the one stream that needs a second position track.
WideChannels == 17

\* Objects mode: the channels and their one position track at 48 Hz, 8-bit
\* for every sample count and every quality for one second and a frame.
ObjectsFiles ==
    { Header(0, 1, AudioTracks(n) \o <<"pos">>, FramesPerPos, c) :
        n \in 1..(MaxTracks - 1), c \in SampleCounts(FramesPerPos) }
    \cup { Header(q, 1, AudioTracks(1) \o <<"pos">>, FramesPerPos, FramesPerPos + 1) :
             q \in 0..3 }

BaseChannels == Header(1, 0, AudioTracks(1), 1, 1)
BaseObjects == Header(1, 1, AudioTracks(1) \o <<"pos">>, FramesPerPos, FramesPerPos)

\* The header sizes that end a file inside one of its four sections.
ShortSizes(f) ==
    { MagicLen - 1, MagicLen + HeadLen - 1,
      MagicLen + HeadLen + TrackRecLen * f.numTracks - 1, HeaderLen(f.numTracks) - 1 }

DefectiveFiles ==
    UNION { { [b EXCEPT !.magicOk = FALSE], [b EXCEPT !.tagOk = FALSE],
              [b EXCEPT !.quality = 4], [b EXCEPT !.mode = 2],
              [b EXCEPT !.numTracks = TrackLimit + 1,
                        !.tracks = AudioTracks(TrackLimit + 1),
                        !.angles = [i \in 1..(TrackLimit + 1) |-> AngleBits("audio")],
                        !.size = HeaderLen(TrackLimit + 1)] }
            \cup { [b EXCEPT !.size = n] : n \in ShortSizes(b) }
          : b \in {BaseChannels, BaseObjects} }
    \cup { Header(1, 1, t, FramesPerPos, FramesPerPos) :
             t \in { <<"pos">>, <<"pos", "audio">>, <<"audio", "pos", "audio">>, <<"audio">>,
                     <<"audio", "pos", "pos">>, <<"bad", "pos">> } }
    \cup { Header(1, 0, t, 1, 1) :
             t \in { <<"audio", "pos">>, <<"audio", "pos", "audio">> } }
    \cup { Header(1, 1, AudioTracks(1) \o <<"pos">>, r, r) :
             r \in (1..MaxRate) \cup {FramesPerPos - 1, FramesPerPos + 1} }

\* Files whose first track record, read as a footer, gives a stream the
\* model plays: one audio track whose angles are denormal floats (the
\* elevation's bits are 1, the azimuth's 1 or 2), in a file of rate 0.
FooterAtTracksFiles ==
    { [Header(1, 0, AudioTracks(1), 0, c) EXCEPT !.angles[1] = [e |-> 1, a |-> k]] :
        c \in {0, 1}, k \in 1..2 }

\* An Objects-mode file of rate 0: its position windows hold no float.
EmptyWindowFiles == { Header(0, 1, AudioTracks(1) \o <<"pos">>, 0, 1) }

Files ==
    ChannelsFiles \cup QualityFiles \cup ObjectsFiles \cup DefectiveFiles
        \cup FooterAtTracksFiles \cup EmptyWindowFiles

\* Two seconds and a frame of WideChannels channels with two position tracks,
\* beside one-channel Objects files of two seconds and of two seconds and a
\* frame,
\* a file LoadLAF refuses and a file without tracks.
WideFiles ==
    { Header(0, 1, AudioTracks(WideChannels) \o <<"pos", "pos">>,
             FramesPerPos, 2 * FramesPerPos + 1),
      Header(0, 1, AudioTracks(1) \o <<"pos">>, FramesPerPos, 2 * FramesPerPos),
      Header(0, 1, AudioTracks(1) \o <<"pos">>, FramesPerPos, 2 * FramesPerPos + 1),
      Header(0, 1, <<"pos">>, FramesPerPos, FramesPerPos),
      Header(1, 0, <<>>, 1, 1) }

(***************************************************************************)
(* The state.                                                              *)
(***************************************************************************)
VARIABLES
    pc,             \* where the program is: "start", "count" and "counted"
                    \* (before and after LoadLAF's check of the number of
                    \* position tracks), "loop" (the while loop of
                    \* PlayLAF), "drain" (its last loop), "done", "rejected"
                    \* (LoadLAF gave up), "aborted" (an alassert failed while
                    \* playing), "failed" (an exception left PlayLAF)
    err,            \* what ended the program early
    file,           \* the header of the file being played
    laf,            \* the stream descriptor LoadLAF built
    good,           \* mInFile is readable: no read has come up short
    ahead,          \* the bytes of the header still ahead of the file position
    chunkNo,        \* the number of chunks read
    mCurrentSample,
    mEnabledTracks,
    mNumEnabled,
    mSampleChunk,
    mPosTracks,
    srcState,       \* AL_SOURCE_STATE of the channels' sources (played in sync)
    processed,      \* AL_BUFFERS_PROCESSED of the sources
    queue,          \* per channel, the buffers queued on its source
    srcPos,         \* per channel, AL_POSITION of its source
    pendingError,   \* the context's error state is not AL_NO_ERROR: a call
                    \* has failed since the last alGetError
    readLog,        \* history: one record per readChunk call
    submitted,      \* history: per channel, the buffers given to alBufferData
    recovered,      \* history: the AL_STOPPED branch was taken
    probe,          \* history: the last position update; in SpecDemux the last
                    \* prepareTrack call and the span it returned
    \* The OtherIO backend (src/alc/backends/otherio.cpp)
    mMsgQueue,      \* OtherIOProxy::mMsgQueue
    promises,       \* per request, how often and with what its promise was set
    callers,        \* per caller thread, where it is and what it waits for
    handler,        \* where the message handler thread is and the message it holds
    mKillNow,       \* per backend, OtherIOPlayback::mKillNow
    mThread,        \* per backend, whether mThread is joinable
    mOpenStatus,    \* per backend, OtherIOPlayback::mOpenStatus
    destroyed,      \* per backend, whether its destructor has run
    mixers,         \* per backend, the threads that run mixerProc
    Connected,      \* per backend, mDevice->Connected
    pushed,         \* history: the requests in the order they were enqueued
    popped,         \* history: the requests in the order they were popped
    \* The dedicated effect (src/Alc/alcDedicated.c)
    effect,         \* the ALeffect: its type and Dedicated.Gain
    alError,        \* the error the last call gave to alSetError
    paramOut,       \* what the last get call wrote through its pointer
    gains,          \* ALdedicatedState::gains
    call            \* history: the last call on the effect and the effect before it

stream == <<good, ahead, chunkNo, mCurrentSample, mEnabledTracks, mNumEnabled,
            mSampleChunk, mPosTracks, readLog>>
sink == <<srcState, processed, queue, srcPos, pendingError>>
lafVars == <<pc, err, file, laf, stream, sink, submitted, recovered, probe>>
ioVars == <<mMsgQueue, promises, callers, handler, mKillNow, mThread, mOpenStatus,
            destroyed, mixers, Connected, pushed, popped>>
dedVars == <<effect, alError, paramOut, gains, call>>
vars == <<lafVars, ioVars, dedVars>>

\* The backend before OtherIOBackendFactory::init: no handler thread, no
\* backend object.
IoIdle ==
    /\ mMsgQueue = <<>>
    /\ promises = <<>>
    /\ callers = <<>>
    /\ handler = [pc |-> "none"]
    /\ mKillNow = <<>>
    /\ mThread = <<>>
    /\ mOpenStatus = <<>>
    /\ destroyed = <<>>
    /\ mixers = <<>>
    /\ Connected = <<>>
    /\ pushed = <<>>
    /\ popped = <<>>

\* An ALfloat: a finite value, an infinity (v is its sign) or a NaN.
Fin(n) == [k |-> "fin", v |-> n]
PosInf == [k |-> "inf", v |-> 1]
NegInf == [k |-> "inf", v |-> -1]
NaN == [k |-> "nan", v |-> 0]

\* An ALint.
ALint(n) == [k |-> "int", v |-> n]

\* What a pointer that was not written through points at.
Unwritten == [k |-> "unwritten", v |-> 0]

NoCall == [op |-> "none", param |-> "none", val |-> Unwritten,
           old |-> [type |-> "null", Gain |-> Fin(0)]]

\* No dedicated effect has been created.
DedIdle ==
    /\ effect = [type |-> "null", Gain |-> Fin(0)]
    /\ alError = "AL_NO_ERROR"
    /\ paramOut = Unwritten
    /\ gains = <<>>
    /\ call = NoCall

ZeroBitmap == [i \in 1..BitmapBytes |-> 0]

\* The position alloc_channel computes from the track's angles.
StaticPos ==
    LET a == [raw |-> <<>>, div |-> 1, from |-> -1] IN [x |-> a, y |-> a, z |-> a]

NoProbe == [playing |-> 0, read |-> {}, calls |-> <<>>, started |-> FALSE]

InitWith(files) ==
    /\ IoIdle
    /\ DedIdle
    /\ pc = "start"
    /\ err = ""
    /\ file \in files
    /\ laf = NoStream
    /\ good = TRUE
    /\ ahead = <<>>
    /\ chunkNo = 0
    /\ mCurrentSample = 0
    /\ mEnabledTracks = ZeroBitmap
    /\ mNumEnabled = 0
    /\ mSampleChunk = <<>>
    /\ mPosTracks = <<>>
    /\ srcState = "Initial"
    /\ processed = 0
    /\ queue = <<>>
    /\ srcPos = <<>>
    /\ pendingError = FALSE
    /\ readLog = <<>>
    /\ submitted = <<>>
    /\ recovered = FALSE
    /\ probe = NoProbe

Init == InitWith(Files)

InitWide == InitWith(WideFiles)

(***************************************************************************)
(* PlayLAF: auto laf = LoadLAF(...); alloc_channel for every channel.      *)
(***************************************************************************)
LoadReject ==
    /\ UNCHANGED <<ioVars, dedVars>>
    /\ pc = "start"
    /\ \E ndebug, nomem \in BOOLEAN :
         /\ LoadError(file, ndebug, nomem) # ""
         /\ err' = LoadError(file, ndebug, nomem)
    /\ pc' = "rejected"
    /\ UNCHANGED <<file, laf, stream, sink, submitted, recovered, probe>>

\* LoadLAF returns a stream and std::for_each calls alloc_channel for the
\* channels in order, which sets the channel's source up.  alloc_channel
\* ends with alGetError: when an error is pending (thrownAt is the channel,
\* 0 for none) it throws std::runtime_error, the channels after it are never
\* set up and PlayLAF never reaches its loop.
LoadAccept ==
    /\ UNCHANGED <<ioVars, dedVars>>
    /\ pc = "start"
    /\ \E ndebug \in BOOLEAN :
         /\ LoadError(file, ndebug, FALSE) = ""
         /\ laf' = LoadLAF(file, ndebug)
         /\ ahead' = HeaderAhead(file, ndebug)
    /\ mSampleChunk' = InitialChunk(laf')
    /\ mPosTracks' = InitialWindows(laf')
    /\ \E thrownAt \in 0..laf'.nChannels :
         \E made \in {IF thrownAt = 0 THEN laf'.nChannels ELSE thrownAt} :
             /\ pc' = IF thrownAt = 0 THEN "loop" ELSE "failed"
             /\ err' = IF thrownAt = 0 THEN err ELSE "openal-error"
             /\ queue' = [i \in 1..made |-> <<>>]
             /\ srcPos' = [i \in 1..made |-> StaticPos]
             /\ submitted' = [i \in 1..made |-> <<>>]
    /\ UNCHANGED <<file, good, chunkNo, mCurrentSample, mEnabledTracks,
                   mNumEnabled, readLog, srcState, processed, pendingError,
                   recovered, probe>>

(***************************************************************************)
(* One chunk of a scheduling tick: readChunk, then for every channel       *)
(* prepareTrack and alBufferData, then for every position track            *)
(* prepareTrack and convertPositions into one half of its window.          *)
(***************************************************************************)
\* The histories tell the first ReadLimit + 1 reads apart: chunkNo and the
\* chunk numbers kept with buffers and floats stop at ReadLimit + 1, which
\* stands for every later chunk, and readLog and submitted keep their first
\* ReadLimit + 1 entries.  Every stream of the model that is read more often
\* has rate 0: its chunks hold no sample.
ReadLimit == 5

\* One more entry of a history.
Remember(h, e) == IF Len(h) <= ReadLimit THEN Append(h, e) ELSE h

\* What the tick works on.
Machine ==
    [ status |-> "ok", good |-> good, ahead |-> ahead, chunkNo |-> chunkNo, cur |-> mCurrentSample,
      enabled |-> mEnabledTracks, nEnabled |-> mNumEnabled, chunk |-> mSampleChunk,
      windows |-> mPosTracks, log |-> readLog, bufs |-> <<>> ]

\* The bitmaps tried for a chunk: every track enabled, every track but
\* track 0, and one that sets only a bit no track has in its last byte.
AllEnabled(numTracks) ==
    [i \in 1..BitmapBytes |->
        IF i <= numTracks \div 8 THEN ByteRange - 1
        ELSE IF i = numTracks \div 8 + 1 THEN 2 ^ (numTracks % 8) - 1
        ELSE 0]

BitmapChoices(numTracks) ==
    IF numTracks = 0 THEN {ZeroBitmap}
    ELSE LET all == AllEnabled(numTracks)
         IN  { all,
               [all EXCEPT ![1] = all[1] - 1],
               [all EXCEPT ![numTracks \div 8 + 1] = 2 ^ (numTracks % 8)] }

\* What the file holds where the next chunk starts: the bitmap, and how many
\* bytes are left (-1: the whole chunk; 0: none; or half of its sample block).
\* A stream with more than one bitmap byte is tried with whole chunks and
\* every track enabled only.  While bytes of the header are ahead the reads
\* take those: the file is one that ends with its header.
ChunkInputs(L, M) ==
    IF Len(M.ahead) > 0
    THEN { [bits |-> ZeroBitmap, avail |-> 0, ubOk |-> TRUE] }
    ELSE IF L.mNumTracks > 8
    THEN { [bits |-> AllEnabled(L.mNumTracks), avail |-> -1, ubOk |-> TRUE] }
    ELSE IF ~M.good
    THEN { [bits |-> ZeroBitmap, avail |-> 0, ubOk |-> u] :
             u \in IF L.mNumTracks = 0 THEN BOOLEAN ELSE {TRUE} }
    ELSE UNION { { [bits |-> b, avail |-> a, ubOk |-> u] :
                     a \in {-1, 0} \cup
                           { BitmapLen(L.mNumTracks) + n \div 2 :
                               n \in { L.mSampleRate * BytesFromQuality(L.mQuality)
                                         * SumPop(b, BitmapBytes) } \ {0} },
                     u \in IF L.mNumTracks = 0 THEN BOOLEAN ELSE {TRUE} }
               : b \in BitmapChoices(L.mNumTracks) }

RECURSIVE ChunkAfter(_, _, _, _, _, _)
\* mSampleChunk after prepareTrack has been called for tracks 0 .. k-1.
ChunkAfter(L, enabled, nEnabled, chunk, count, k) ==
    IF k = 0 THEN chunk
    ELSE LET prev == ChunkAfter(L, enabled, nEnabled, chunk, count, k - 1)
         IN  prepareTrack(L, enabled, nEnabled, prev, k - 1, count).mSampleChunk

\* Variant of ShiftWindow that leaves the window where it is.
ShiftWindowNone(win, rate) == win

\* std::copy(begin + mSampleRate, end, begin)
ShiftWindow(win, rate) ==
    [j \in 1..Len(win) |-> IF j <= rate THEN win[j + rate] ELSE win[j]]

\* convertPositions into the first or the last mSampleRate floats of a window.
DecodeInto(L, win, half, src, c) ==
    LET rate == L.mSampleRate
        dst  == [j \in 1..rate |-> IF half = "first" THEN win[j] ELSE win[rate + j]]
        new  == convertPositions(L.mQuality, dst, src, c)
    IN  [j \in 1..Len(win) |->
            IF half = "first"
            THEN IF j <= rate THEN new[j] ELSE win[j]
            ELSE IF j <= rate THEN win[j] ELSE new[j - rate]]

FillChunk(L, M, in, half, shift) ==
    LET c      == Min(M.chunkNo + 1, ReadLimit + 1)
        rc     == readChunk(L, M.good, M.cur, M.chunk, c, in.bits, in.avail, in.ubOk,
                            M.ahead)
        n      == rc.numsamples
        bps    == BytesFromQuality(L.mQuality)
        \* the alassert of readChunk ends the process before the samples are read
        status == IF ~rc.assertOk THEN "aborted"
                  ELSE IF L.nChannels > 0 /\ FormatFromQualityThrows(L.mQuality)
                  THEN "failed"
                  ELSE "ok"
        span(t) == prepareTrack(L, rc.mEnabledTracks, rc.mNumEnabled,
                                rc.mSampleChunk, t, n).span
        done   == CASE status = "aborted" -> 0
                    [] status = "failed" -> 1
                    [] OTHER -> L.nChannels + L.nPos
    IN  [ status  |-> status,
          good    |-> IF status = "aborted" THEN M.good /\ ~rc.bitsShort ELSE rc.good,
          ahead   |-> IF status = "aborted" THEN rc.aheadBits
                      ELSE rc.ahead,
          chunkNo |-> c,
          cur     |-> IF status = "aborted" THEN M.cur ELSE rc.mCurrentSample,
          enabled |-> rc.mEnabledTracks,
          nEnabled |-> rc.mNumEnabled,
          chunk   |-> IF status = "aborted" THEN M.chunk
                      ELSE ChunkAfter(L, rc.mEnabledTracks, rc.mNumEnabled,
                                      rc.mSampleChunk, n, done),
          windows |-> IF status # "ok" THEN M.windows
                      ELSE [i \in 1..L.nPos |->
                               DecodeInto(L,
                                   IF shift THEN ShiftWindow(M.windows[i], L.mSampleRate)
                                   ELSE M.windows[i],
                                   half, span(L.nChannels + i - 1), c)],
          log     |-> IF status = "aborted" THEN M.log
                      ELSE Remember(M.log, [n |-> n, atEnd |-> isAtEnd(L, M.cur),
                                            short |-> rc.short]),
          bufs    |-> IF status # "ok" THEN <<>>
                      ELSE [i \in 1..L.nChannels |->
                               [chunk |-> c, frames |-> Len(span(i - 1)) \div bps,
                                data |-> span(i - 1)]] ]

\* The tick's writes to the stream.
Commit(M) ==
    /\ good' = M.good
    /\ ahead' = M.ahead
    /\ chunkNo' = M.chunkNo
    /\ mCurrentSample' = M.cur
    /\ mEnabledTracks' = M.enabled
    /\ mNumEnabled' = M.nEnabled
    /\ mSampleChunk' = M.chunk
    /\ mPosTracks' = M.windows
    /\ readLog' = M.log

\* An alassert or an exception ends the program inside the tick.
Stop(M) ==
    /\ pc' = M.status
    /\ err' = IF M.status = "aborted" THEN "bitmap-assert" ELSE "24-bit"
    /\ Commit(M)

(***************************************************************************)
(* What the program reads from the sink.  With no channel,                 *)
(* mChannels.back() is undefined: any value may be read.  A query that     *)
(* fails leaves its variable at the 0 it was initialised with and sets the *)
(* context's error state; a state of 0 is none of the four source states   *)
(* ("Other").                                                              *)
(***************************************************************************)
SourceStates == {"Initial", "Playing", "Paused", "Stopped", "Other"}

\* What AL_SOURCE_STATE answers when the query succeeds.
ObservedStates == IF laf.nChannels = 0 THEN SourceStates ELSE {srcState}

\* What AL_BUFFERS_PROCESSED answers when the query succeeds.
ObservedProcessed == IF laf.nChannels = 0 THEN {0, 1} ELSE {processed}

RECURSIVE FramesBefore(_, _)
\* The frames of the first k buffers of a queue.
FramesBefore(q, k) == IF k = 0 THEN 0 ELSE FramesBefore(q, k - 1) + q[k].frames

\* The offsets tried inside buffer k + 1 of queue q: its first and its last
\* frame.
OffsetsIn(q, k) ==
    LET base == FramesBefore(q, k)
        n    == q[k + 1].frames
    IN  IF n = 0 THEN {base} ELSE {base, base + n - 1}

\* What AL_SAMPLE_OFFSET answers when the query succeeds.  It counts from
\* the start of the queue.  The three queries of lines 537-539 are separate
\* calls and the source plays on between them, so the offset may lie in the
\* buffer AL_BUFFERS_PROCESSED pointed at or in a later one.  Without
\* position tracks the offset is not used and 0 stands for every answer.
ObservedOffsets ==
    IF laf.nChannels = 0 \/ laf.nPos = 0 THEN {0}
    ELSE LET q == queue[laf.nChannels]
         IN  IF processed >= Len(q) THEN {0}
             ELSE UNION { OffsetsIn(q, k) : k \in processed..(Len(q) - 1) }

\* The answers of the first two queries of a poll (lines 537-538) and
\* whether one of them failed.
PollResults ==
    IF laf.nChannels = 0
    THEN { [processed |-> p, offset |-> 0, error |-> e] :
             p \in ObservedProcessed, e \in BOOLEAN }
    ELSE { [processed |-> processed, offset |-> o, error |-> FALSE] :
             o \in ObservedOffsets }
         \cup { [processed |-> 0, offset |-> o, error |-> TRUE] :
                  o \in ObservedOffsets \cup {0} }
         \cup { [processed |-> processed, offset |-> 0, error |-> TRUE] }

\* The chunk of the buffer of queue q that holds frame off (0: none does).
PlayingChunk(q, off) ==
    LET ks == {k \in 1..Len(q) : FramesBefore(q, k - 1) <= off /\ off < FramesBefore(q, k)}
    IN  IF ks = {} THEN 0 ELSE q[CHOOSE k \in ks : TRUE].chunk

\* A float read outside its vector, and the read that ends the process
\* (SIGSEGV) instead of giving one.
GarbageFloat == [raw |-> <<>>, div |-> 0, from |-> -2]
Segv == [raw |-> <<>>, div |-> 0, from |-> -3]

\* mPosTracks[trackidx][idx].  A read outside the vector is undefined: it
\* gives some float, or (fault) it ends the process.
WindowAt(win, idx, fault) ==
    IF idx < Len(win) THEN win[idx + 1]
    ELSE IF fault THEN Segv ELSE GarbageFloat

\* posoffset = unsigned(offset)/FramesPerPos*16 + (i&15)
PosOffset(off, i) == (off \div FramesPerPos) * 16 + (i % 16)

\* alSource3f(source, AL_POSITION, x, y, -z) for channel i (0-based) from the
\* window entries posoffset*3 + 0, 1, 2 of position track i>>4.
PositionOf(windows, posoffset, i, fault) ==
    LET win == windows[ShiftRight(i, 4) + 1]
        z   == WindowAt(win, posoffset * 3 + 2, fault)
    IN  [ x |-> WindowAt(win, posoffset * 3 + 0, fault),
          y |-> WindowAt(win, posoffset * 3 + 1, fault),
          z |-> [z EXCEPT !.div = 0 - z.div] ]

\* One of the three reads of a position ended the process.
Faulted(p) == Segv.from \in {p.x.from, p.y.from, p.z.from}

\* The positions a loop of alSource3f calls has set when it ends: all of
\* pos, or those before the first read that ended the process.
PositionsSet(pos) ==
    [i \in 1..Len(pos) |->
        IF \A j \in 1..i : ~Faulted(pos[j]) THEN pos[i] ELSE srcPos[i]]

\* Variant of PositionCalls that never suspends the context.
PositionCallsBare(phase) == <<"positions">>

\* The calls on the context around the loop of alSource3f calls ("positions")
\* of a position update: alcSuspendContext and alcProcessContext in the
\* playing and the drain loop, none in the AL_INITIAL branch.
PositionCalls(phase) ==
    IF phase = "initial" THEN <<"positions">>
    ELSE <<"suspend", "positions", "resume">>

\* The chunks the floats of a set of positions were decoded from.
ReadFrom(pos) ==
    UNION { { pos[i].x.from, pos[i].y.from, pos[i].z.from } : i \in 1..Len(pos) }

\* The positions of lines 546-559 for the sample offset off.
PositionsAt(off, fault) ==
    IF laf.nPos = 0 THEN srcPos
    ELSE [i \in 1..laf.nChannels |->
             PositionOf(mPosTracks, PosOffset(off, i - 1), i - 1, fault)]

\* A read of the position update for offset off ends the process.
UpdateFaults(off, fault) ==
    /\ laf.nPos > 0
    /\ \E i \in 1..Len(PositionsAt(off, fault)) : Faulted(PositionsAt(off, fault)[i])

\* The process ends inside a position update: the calls on the context
\* that precede the loop have been made (alcSuspendContext in the playing
\* and the drain loop), the positions before the read are set, and nothing
\* after the read happens: alcProcessContext is never reached.
UpdateCrash(pos, played, phase) ==
    LET set == { i \in 1..Len(pos) : \A j \in 1..i : ~Faulted(pos[j]) }
    IN  /\ pc' = "aborted"
        /\ err' = "segv"
        /\ srcPos' = PositionsSet(pos)
        /\ probe' = [ playing |-> played,
                      read    |-> UNION { { pos[i].x.from, pos[i].y.from, pos[i].z.from } :
                                            i \in set },
                      calls   |-> SelectSeq(PositionCalls(phase),
                                            LAMBDA made : made # "resume"),
                      started |-> phase # "initial" ]

UpdatePositions(off) ==
    IF laf.nPos = 0
    THEN UNCHANGED <<srcPos, probe>>
    ELSE /\ srcPos' = PositionsAt(off, FALSE)
         /\ probe' = [ playing |-> PlayingChunk(queue[laf.nChannels], off),
                       read    |-> ReadFrom(srcPos'),
                       calls   |-> PositionCalls(IF pc = "drain" THEN "drain"
                                                 ELSE "playing"),
                       started |-> TRUE ]

(***************************************************************************)
(* The while(!laf->isAtEnd()) loop of PlayLAF: one action per branch.      *)
(***************************************************************************)
InLoop == pc = "loop" /\ ~isAtEnd(laf, mCurrentSample)


\* The initial positions: entries (i&15)*3 + 0, 1, 2 of the first second.
InitialPositions(windows, fault) ==
    IF laf.nPos = 0 THEN srcPos
    ELSE [i \in 1..laf.nChannels |->
             PositionOf(windows, (i - 1) % 16, i - 1, fault)]

\* A read of the initial positions ends the process.
InitialFaults(windows, fault) ==
    /\ laf.nPos > 0
    /\ \E i \in 1..laf.nChannels : Faulted(InitialPositions(windows, fault)[i])

\* A query of the tick that the branch taken does not use (failed) leaves
\* the context's error state set.
QueryError(failed) == pendingError' = (pendingError \/ failed)

\* Variant of InitialQueue that queues the second buffer first.
InitialQueueSwapped(buf0, buf1) == <<buf1, buf0>>

\* alSourceQueueBuffers(source, mBuffers.size(), mBuffers.data()): both
\* buffers of the channel are queued, mBuffers[0] first.
InitialQueue(buf0, buf1) == <<buf0, buf1>>

\* state == AL_INITIAL: two chunks are read, each channel's two buffers are
\* filled and queued, and all sources are started.
TickInitial ==
    /\ UNCHANGED <<ioVars, dedVars>>
    /\ InLoop
    /\ "Initial" \in ObservedStates
    /\ \E failed \in BOOLEAN : QueryError(failed)
    /\ \E in1 \in ChunkInputs(laf, Machine) :
         \E m1 \in {FillChunk(laf, Machine, in1, "first", FALSE)} :
             IF m1.status # "ok"
             THEN /\ Stop(m1)
                  /\ UNCHANGED <<file, laf, srcState, processed, queue, srcPos,
                                 submitted, recovered, probe>>
             ELSE \E in2 \in ChunkInputs(laf, m1) :
                    \E m2 \in {FillChunk(laf, m1, in2, "last", FALSE)} :
                        IF m2.status # "ok"
                        THEN /\ Stop(m2)
                             /\ submitted' = [i \in 1..laf.nChannels |->
                                                 Remember(submitted[i], m1.bufs[i])]
                             /\ UNCHANGED <<file, laf, srcState, processed, queue,
                                            srcPos, recovered, probe>>
                        ELSE /\ Commit(m2)
                             /\ submitted' = [i \in 1..laf.nChannels |->
                                                 Remember(Remember(submitted[i], m1.bufs[i]),
                                                          m2.bufs[i])]
                             /\ queue' = [i \in 1..laf.nChannels |->
                                             InitialQueue(m1.bufs[i], m2.bufs[i])]
                             /\ \E fault \in BOOLEAN :
                                  /\ IF InitialFaults(m2.windows, fault)
                                     THEN /\ UpdateCrash(InitialPositions(m2.windows, fault),
                                                         m1.chunkNo, "initial")
                                          /\ UNCHANGED <<file, laf, srcState, processed,
                                                         recovered>>
                                     ELSE /\ srcPos' = InitialPositions(m2.windows, FALSE)
                                          /\ probe' = IF laf.nPos = 0 THEN probe
                                                      ELSE [ playing |-> m1.chunkNo,
                                                             read    |-> ReadFrom(srcPos'),
                                                             calls   |-> PositionCalls("initial"),
                                                             started |-> FALSE ]
                                          /\ srcState' = IF laf.nChannels = 0 THEN srcState
                                                         ELSE "Playing"
                                          /\ processed' = 0
                                          /\ UNCHANGED <<pc, err, file, laf, recovered>>

\* Variant of Requeue that queues a buffer without taking one off.
RequeueKeep(q, buf) == Append(q, buf)

\* Variant of Requeue that puts the refilled buffer at the head of the queue.
RequeueFront(q, buf) == <<buf>> \o Tail(q)

\* alSourceUnqueueBuffers(source, 1, &bufid) takes the oldest buffer of the
\* queue; after alBufferData, alSourceQueueBuffers puts it at the end.
Requeue(q, buf) == Append(Tail(q), buf)

\* Whether the source, which plays on while the tick refills, has played
\* its last queued buffer to the end before the refilled one is queued: it
\* has then stopped, and the buffers left in its queue are all processed.
RunsOut == IF laf.nChannels > 0 /\ srcState = "Playing" THEN BOOLEAN ELSE {FALSE}

\* state == AL_PLAYING || state == AL_PAUSED: the positions are updated; if a
\* buffer has been processed, one chunk is read and every channel's oldest
\* buffer is unqueued, refilled and queued again.
TickPlaying ==
    /\ UNCHANGED <<ioVars, dedVars>>
    /\ InLoop
    /\ ObservedStates \cap {"Playing", "Paused"} # {}
    /\ \E ob \in PollResults, fault \in BOOLEAN :
         /\ QueryError(ob.error)
         /\ IF UpdateFaults(ob.offset, fault)
            THEN /\ UpdateCrash(PositionsAt(ob.offset, fault),
                                PlayingChunk(queue[laf.nChannels], ob.offset), "playing")
                 /\ UNCHANGED <<file, laf, stream, srcState, processed, queue,
                                submitted, recovered>>
            ELSE /\ UpdatePositions(ob.offset)
                 /\ IF ob.processed > 0
                    THEN \E in \in ChunkInputs(laf, Machine) :
                           \E m \in {FillChunk(laf, Machine, in, "last", TRUE)} :
                               IF m.status # "ok"
                               THEN /\ Stop(m)
                                    /\ UNCHANGED <<file, laf, srcState, processed,
                                                   queue, submitted, recovered>>
                               ELSE /\ Commit(m)
                                    /\ submitted' = [i \in 1..laf.nChannels |->
                                                        Remember(submitted[i], m.bufs[i])]
                                    /\ queue' = [i \in 1..laf.nChannels |->
                                                    Requeue(queue[i], m.bufs[i])]
                                    /\ \E ranOut \in RunsOut :
                                         IF ranOut
                                         THEN /\ srcState' = "Stopped"
                                              /\ processed' = Len(queue[laf.nChannels]) - 1
                                         ELSE /\ srcState' = srcState
                                              /\ processed' = IF laf.nChannels = 0
                                                              THEN processed
                                                              ELSE processed - 1
                                    /\ UNCHANGED <<pc, err, file, laf, recovered>>
                    ELSE UNCHANGED <<pc, err, file, laf, stream, srcState, processed,
                                     queue, submitted, recovered>>

\* Variant of TickStopped that takes a stopped source for the end of the
\* stream and leaves the loop.
TickStoppedEnds ==
    /\ UNCHANGED <<ioVars, dedVars>>
    /\ InLoop
    /\ "Stopped" \in ObservedStates
    /\ pc' = "drain"
    /\ UNCHANGED <<err, file, laf, stream, sink, submitted, recovered, probe>>

\* state == AL_STOPPED: alSourcePlayv restarts every source at the head of
\* its queue.
TickStopped ==
    /\ UNCHANGED <<ioVars, dedVars>>
    /\ InLoop
    /\ "Stopped" \in ObservedStates
    /\ srcState' = IF laf.nChannels = 0 THEN srcState ELSE "Playing"
    /\ processed' = 0
    /\ recovered' = TRUE
    /\ \E failed \in BOOLEAN : QueryError(failed)
    /\ UNCHANGED <<pc, err, file, laf, stream, queue, srcPos, submitted, probe>>

\* Any other state: break.  The state of a source is one of the four, so
\* with a channel this is the tick whose AL_SOURCE_STATE query fails.
TickOther ==
    /\ UNCHANGED <<ioVars, dedVars>>
    /\ InLoop
    /\ pc' = "drain"
    /\ \E failed \in BOOLEAN : pendingError' = (laf.nChannels > 0 \/ pendingError \/ failed)
    /\ UNCHANGED <<err, file, laf, stream, srcState, processed, queue, srcPos,
                   submitted, recovered, probe>>

\* The loop ends when the stream is at its end.
LoopExit ==
    /\ UNCHANGED <<ioVars, dedVars>>
    /\ pc = "loop"
    /\ isAtEnd(laf, mCurrentSample)
    /\ pc' = "drain"
    /\ UNCHANGED <<err, file, laf, stream, sink, submitted, recovered, probe>>

\* while(alGetError() == AL_NO_ERROR && state == AL_PLAYING), after two
\* queries that answered.
DrainReady == ~pendingError /\ "Playing" \in ObservedStates

\* The last loop: while no error is pending and the source is playing, the
\* positions are updated for the offset the source answered.
DrainPoll ==
    /\ UNCHANGED <<ioVars, dedVars>>
    /\ pc = "drain"
    /\ DrainReady
    /\ \E off \in ObservedOffsets, fault \in BOOLEAN :
         IF UpdateFaults(off, fault)
         THEN /\ UpdateCrash(PositionsAt(off, fault),
                             PlayingChunk(queue[laf.nChannels], off), "drain")
              /\ UNCHANGED <<file, laf, stream, srcState, processed, queue,
                             pendingError, submitted, recovered>>
         ELSE /\ UpdatePositions(off)
              /\ UNCHANGED <<pc, err, file, laf, stream, srcState, processed,
                             queue, pendingError, submitted, recovered>>

\* The last loop ends: an error is pending, the source is not playing, or
\* (failed) one of the two queries before the test fails.  alGetError
\* clears the error state.
DrainEnd ==
    /\ UNCHANGED <<ioVars, dedVars>>
    /\ pc = "drain"
    /\ \E failed \in BOOLEAN : failed \/ ~DrainReady
    /\ pc' = "done"
    /\ pendingError' = FALSE
    /\ UNCHANGED <<err, file, laf, stream, srcState, processed, queue, srcPos,
                   submitted, recovered, probe>>

\* mChannels.back() of an empty vector may also end the process.
NoChannelCrash ==
    /\ UNCHANGED <<ioVars, dedVars>>
    /\ InLoop \/ pc = "drain"
    /\ laf.nChannels = 0
    /\ pc' = "aborted"
    /\ err' = "no-channel"
    /\ UNCHANGED <<file, laf, stream, sink, submitted, recovered, probe>>

(***************************************************************************)
(* The sink: the sources play their queues in sync.                        *)
(***************************************************************************)
Running == pc \in {"loop", "drain"} /\ laf.nChannels > 0

\* The buffer being played ends; after the last one the source stops.
SinkEndBuffer ==
    /\ UNCHANGED <<ioVars, dedVars>>
    /\ Running
    /\ srcState = "Playing"
    /\ processed' = processed + 1
    /\ srcState' = IF processed + 1 >= Len(queue[laf.nChannels])
                   THEN "Stopped" ELSE "Playing"
    /\ UNCHANGED <<pc, err, file, laf, stream, queue, srcPos, pendingError, submitted,
                   recovered, probe>>

SinkPause ==
    /\ UNCHANGED <<ioVars, dedVars>>
    /\ Running
    /\ srcState = "Playing"
    /\ srcState' = "Paused"
    /\ UNCHANGED <<pc, err, file, laf, stream, processed, queue, srcPos,
                   pendingError, submitted, recovered, probe>>

SinkResume ==
    /\ UNCHANGED <<ioVars, dedVars>>
    /\ Running
    /\ srcState = "Paused"
    /\ srcState' = "Playing"
    /\ UNCHANGED <<pc, err, file, laf, stream, processed, queue, srcPos,
                   pendingError, submitted, recovered, probe>>

Next ==
    \/ LoadReject
    \/ LoadAccept
    \/ TickInitial
    \/ TickPlaying
    \/ TickStopped
    \/ TickOther
    \/ LoopExit
    \/ DrainPoll
    \/ DrainEnd
    \/ NoChannelCrash
    \/ SinkEndBuffer
    \/ SinkPause
    \/ SinkResume

Spec == Init /\ [][Next]_vars

\* The same player on the files of WideFiles.
SpecWide == InitWide /\ [][Next]_vars

(***************************************************************************)
(* LoadLAF's check of the number of position tracks, on its own: the       *)
(* parser stands after the loop over the track records of a file of at     *)
(* most TrackLimit records, audio tracks first, and applies the check of   *)
(* lines 453-455.                                                          *)
(***************************************************************************)
PosTracks(n) == [i \in 1..n |-> "pos"]

\* The (channels, position tracks) counts the track loop can end with.
TrackCounts(mode) ==
    { <<n, p>> \in (0..TrackLimit) \X (0..TrackLimit) :
        /\ n + p <= TrackLimit
        /\ p > 0 => (n > 0 /\ mode = 1) }

InitCount ==
    /\ IoIdle
    /\ DedIdle
    /\ pc = "count"
    /\ err = ""
    /\ \E mode \in {0, 1} : \E np \in TrackCounts(mode) :
          /\ file = Header(0, mode, AudioTracks(np[1]) \o PosTracks(np[2]),
                           FramesPerPos, FramesPerPos)
          /\ laf = [NoStream EXCEPT !.mMode = ModeOf(mode), !.mNumTracks = np[1] + np[2],
                                    !.nChannels = np[1], !.nPos = np[2]]
    /\ good = TRUE
    /\ ahead = <<>>
    /\ chunkNo = 0
    /\ mCurrentSample = 0
    /\ mEnabledTracks = ZeroBitmap
    /\ mNumEnabled = 0
    /\ mSampleChunk = <<>>
    /\ mPosTracks = <<>>
    /\ srcState = "Initial"
    /\ processed = 0
    /\ queue = <<>>
    /\ srcPos = <<>>
    /\ pendingError = FALSE
    /\ readLog = <<>>
    /\ submitted = <<>>
    /\ recovered = FALSE
    /\ probe = NoProbe

\* if(laf->mMode == Mode::Objects) alassert(...)
CountCheck ==
    /\ UNCHANGED <<ioVars, dedVars>>
    /\ pc = "count"
    /\ IF laf.mMode = "Objects" /\ ~PosCountOk(laf.nChannels, laf.nPos)
       THEN pc' = "rejected" /\ err' = "pos-count"
       ELSE pc' = "counted" /\ err' = err
    /\ UNCHANGED <<file, laf, stream, sink, submitted, recovered, probe>>

NextCount == CountCheck

SpecCount == InitCount /\ [][NextCount]_vars

(***************************************************************************)
(* LafStream::convertPositions on its own: a stream of any quality, a      *)
(* destination of mSampleRate floats, some of them written before, and a   *)
(* source of up to mSampleRate samples.                                    *)
(***************************************************************************)
\* Whether convertPositions leaves by an exception: no case of its switch
\* throws, the case of Quality::s24 is a bare break.
convertPositionsThrows(quality) == FALSE

\* A float written by an earlier call.
OldFloat == [raw |-> <<>>, div |-> 1, from |-> -1]

\* The longest destination converted.
MaxFloats == 3

InitConvert ==
    /\ IoIdle
    /\ DedIdle
    /\ pc = "convert"
    /\ err = ""
    /\ file = Header(1, 0, <<>>, 1, 1)
    /\ \E q \in Qualities, r \in 0..MaxFloats :
          /\ laf = [NoStream EXCEPT !.mQuality = q, !.mSampleRate = r]
          /\ \E n \in 0..r :
                mSampleChunk = TrackBytes(1, 0, n, BytesFromQuality(q))
          /\ \E dst \in [1..r -> {ZeroFloat, OldFloat}] : mPosTracks = <<dst>>
    /\ good = TRUE
    /\ ahead = <<>>
    /\ chunkNo = 1
    /\ mCurrentSample = 0
    /\ mEnabledTracks = ZeroBitmap
    /\ mNumEnabled = 0
    /\ srcState = "Initial"
    /\ processed = 0
    /\ queue = <<>>
    /\ srcPos = <<>>
    /\ pendingError = FALSE
    /\ readLog = <<>>
    /\ submitted = <<>>
    /\ recovered = FALSE
    /\ probe = NoProbe

\* laf->convertPositions(dst, src)
Convert ==
    /\ UNCHANGED <<ioVars, dedVars>>
    /\ pc = "convert"
    /\ IF convertPositionsThrows(laf.mQuality)
       THEN /\ pc' = "failed"
            /\ err' = "24-bit"
            /\ UNCHANGED mPosTracks
       ELSE /\ pc' = "converted"
            /\ err' = err
            /\ mPosTracks' = <<convertPositions(laf.mQuality, mPosTracks[1],
                                                 mSampleChunk, chunkNo)>>
    /\ UNCHANGED <<file, laf, good, ahead, chunkNo, mCurrentSample, mEnabledTracks,
                   mNumEnabled, mSampleChunk, readLog, sink, submitted,
                   recovered, probe>>

NextConvert == Convert

SpecConvert == InitConvert /\ [][NextConvert]_vars

(***************************************************************************)
(* The OtherIO backend: caller threads push requests on the message queue  *)
(* and wait on the future of each; the message handler thread pops them    *)
(* and runs the proxy operation on the backend; startProxy launches the    *)
(* backend's mixer thread and stopProxy joins it.                          *)
(***************************************************************************)
\* The caller threads, the requests each of them makes, the backends.
MaxCallers == 2
MaxRequests == 2
NumBackends == 1

CallerIds == 1..MaxCallers
Backends == 1..NumBackends

\* The messages pushMessage is called with (QuitThread is never pushed).
MsgTypes == {"OpenDevice", "ResetDevice", "StartDevice", "StopDevice", "CloseDevice"}

LafIdle ==
    /\ pc = "none"
    /\ err = ""
    /\ file = Header(1, 0, <<>>, 1, 1)
    /\ laf = NoStream
    /\ good = TRUE
    /\ ahead = <<>>
    /\ chunkNo = 0
    /\ mCurrentSample = 0
    /\ mEnabledTracks = ZeroBitmap
    /\ mNumEnabled = 0
    /\ mSampleChunk = <<>>
    /\ mPosTracks = <<>>
    /\ srcState = "Initial"
    /\ processed = 0
    /\ queue = <<>>
    /\ srcPos = <<>>
    /\ pendingError = FALSE
    /\ readLog = <<>>
    /\ submitted = <<>>
    /\ recovered = FALSE
    /\ probe = NoProbe

\* The methods of a backend that send a message: open, reset, start, stop.
CallTypes == MsgTypes \ {"CloseDevice"}

\* OtherIOBackendFactory::init has launched the message handler thread; the
\* backends are constructed (mOpenStatus{E_FAIL}, mKillNow{true}, mThread
\* not joinable).
InitIo ==
    /\ LafIdle
    /\ DedIdle
    /\ mMsgQueue = <<>>
    /\ promises = <<>>
    /\ callers = [c \in CallerIds |-> [pc |-> "idle", req |-> 0, made |-> 0, got |-> "none",
                                       type |-> "none", proxy |-> 0]]
    /\ handler = [pc |-> "starting", msg |-> 0, hr |-> "none"]
    /\ mKillNow = [b \in Backends |-> TRUE]
    /\ mThread = [b \in Backends |-> FALSE]
    /\ mOpenStatus = [b \in Backends |-> "E_FAIL"]
    /\ destroyed = [b \in Backends |-> FALSE]
    /\ mixers = [b \in Backends |-> 0]
    /\ Connected = [b \in Backends |-> TRUE]
    /\ pushed = <<>>
    /\ popped = <<>>

\* std::terminate has not ended the process.
ProcessAlive ==
    /\ handler.pc # "terminated"
    /\ \A c \in DOMAIN callers : callers[c].pc # "terminated"

\* messageHandler up to its loop: COM is initialised, or the thread returns.
HandlerStart ==
    /\ handler.pc = "starting"
    /\ \E ok \in BOOLEAN :
          handler' = [handler EXCEPT !.pc = IF ok THEN "pop" ELSE "exited"]
    /\ UNCHANGED <<lafVars, dedVars, mMsgQueue, promises, callers, mKillNow,
                   mThread, mOpenStatus, destroyed, mixers, Connected, pushed, popped>>

\* A caller thread other than c is inside a method of backend b.
InUse(b, c) ==
    \E d \in CallerIds \ {c} : callers[d].pc = "waiting" /\ callers[d].proxy = b

\* A caller thread is inside the destructor of backend b.
InDestructor(b) ==
    \E d \in CallerIds :
        callers[d].pc = "waiting" /\ callers[d].proxy = b /\ callers[d].type = "CloseDevice"

\* pushMessage: the message joins the back of the queue under the lock, and
\* the caller goes on to wait on the future.
Enqueue(c, type, b) ==
    LET id == Len(pushed) + 1
    IN  /\ mMsgQueue' = Append(mMsgQueue, [mType |-> type, mProxy |-> b, id |-> id])
        /\ promises' = Append(promises, [sets |-> 0, value |-> "none"])
        /\ pushed' = Append(pushed, id)
        /\ callers' = [callers EXCEPT ![c] = [pc |-> "waiting", req |-> id,
                                              made |-> @.made + 1, got |-> "none",
                                              type |-> type, proxy |-> b]]

\* pushMessage(type, param) by a caller thread in open (called with the
\* name of the device), reset, start or stop of backend b, once init has
\* succeeded.  The backend is one that exists: its destructor has not been
\* entered.
PushMessage(c, type, b) ==
    /\ ProcessAlive
    /\ handler.pc \notin {"starting", "exited"}
    /\ callers[c].pc = "idle"
    /\ callers[c].made < MaxRequests
    /\ ~destroyed[b] /\ ~InDestructor(b)
    /\ Enqueue(c, type, b)
    /\ UNCHANGED <<lafVars, dedVars, handler, mKillNow, mThread, mOpenStatus,
                   destroyed, mixers, Connected, popped>>

\* The members of backend b are destroyed in thread c: ~thread() ends the
\* process with std::terminate if mThread is joinable.
DestroyMembers(c, b, got) ==
    IF mThread[b]
    THEN /\ callers' = [callers EXCEPT ![c] = [@ EXCEPT !.pc = "terminated", !.got = got]]
         /\ UNCHANGED destroyed
    ELSE /\ callers' = [callers EXCEPT ![c] = [@ EXCEPT !.pc = "idle", !.got = got]]
         /\ destroyed' = [destroyed EXCEPT ![b] = TRUE]

\* ~OtherIOPlayback in caller thread c, no other thread being inside a
\* method of the backend: if(SUCCEEDED(mOpenStatus)) CloseDevice is pushed
\* and waited for, otherwise the members are destroyed at once.
Destruct(c, b) ==
    /\ ProcessAlive
    /\ handler.pc \notin {"starting", "exited"}
    /\ callers[c].pc = "idle"
    /\ ~destroyed[b] /\ ~InUse(b, c)
    /\ IF mOpenStatus[b] = "S_OK"
       THEN /\ Enqueue(c, "CloseDevice", b)
            /\ UNCHANGED destroyed
       ELSE /\ DestroyMembers(c, b, callers[c].got)
            /\ UNCHANGED <<mMsgQueue, promises, pushed>>
    /\ UNCHANGED <<lafVars, dedVars, handler, mKillNow, mThread, mOpenStatus,
                   mixers, Connected, popped>>

\* future.get() / future.wait() returns once the promise has a value.  open
\* keeps the value in mOpenStatus; the destructor goes on to destroy the
\* members.
FutureGet(c) ==
    /\ ProcessAlive
    /\ callers[c].pc = "waiting"
    /\ promises[callers[c].req].sets > 0
    /\ LET got == promises[callers[c].req].value
           b   == callers[c].proxy
       IN  /\ mOpenStatus' = IF callers[c].type = "OpenDevice"
                             THEN [mOpenStatus EXCEPT ![b] = got]
                             ELSE mOpenStatus
           /\ IF callers[c].type = "CloseDevice"
              THEN DestroyMembers(c, b, got)
              ELSE /\ callers' = [callers EXCEPT ![c] = [@ EXCEPT !.pc = "idle",
                                                                  !.got = got]]
                   /\ UNCHANGED destroyed
    /\ UNCHANGED <<lafVars, dedVars, mMsgQueue, promises, handler, mKillNow,
                   mThread, mixers, Connected, pushed, popped>>

\* Variant of PopIndex that takes the newest message.
PopIndexBack(q) == Len(q)

\* mMsgQueue.front(): the index of the message popMessage takes.
PopIndex(q) == 1

\* popMessage: waits until the queue is not empty, moves the front message
\* out and pops it.
PopMessage ==
    /\ ProcessAlive
    /\ handler.pc = "pop"
    /\ mMsgQueue # <<>>
    /\ LET k == PopIndex(mMsgQueue)
       IN  /\ handler' = [pc |-> "handle", msg |-> mMsgQueue[k], hr |-> "none"]
           /\ mMsgQueue' = [j \in 1..(Len(mMsgQueue) - 1) |->
                               IF j < k THEN mMsgQueue[j] ELSE mMsgQueue[j + 1]]
           /\ popped' = Append(popped, [id |-> mMsgQueue[k].id, hr |-> "none"])
    /\ UNCHANGED <<lafVars, dedVars, mOpenStatus, destroyed, promises, callers, mKillNow, mThread,
                   mixers, Connected, pushed>>

\* The result of the request being handled is hr.
Handled(hr) ==
    /\ handler' = [handler EXCEPT !.pc = "fulfil", !.hr = hr]
    /\ popped' = [popped EXCEPT ![Len(popped)].hr = hr]

\* openProxy, resetProxy, closeProxy: nothing but S_OK.
HandleSimple ==
    /\ ProcessAlive
    /\ handler.pc = "handle"
    /\ handler.msg.mType \in {"OpenDevice", "ResetDevice", "CloseDevice"}
    /\ Handled("S_OK")
    /\ UNCHANGED <<lafVars, dedVars, mOpenStatus, destroyed, mMsgQueue, promises, callers, mKillNow,
                   mThread, mixers, Connected, pushed>>

\* startProxy: mKillNow is cleared and a thread is constructed; if that
\* throws, E_FAIL is returned.  The move assignment to mThread ends the
\* process with std::terminate if mThread is joinable.
HandleStart ==
    /\ ProcessAlive
    /\ handler.pc = "handle"
    /\ handler.msg.mType = "StartDevice"
    /\ LET b == handler.msg.mProxy
       IN  /\ mKillNow' = [mKillNow EXCEPT ![b] = FALSE]
           /\ \E created \in BOOLEAN :
                IF ~created
                THEN /\ Handled("E_FAIL")
                     /\ UNCHANGED <<mThread, mixers>>
                ELSE /\ mixers' = [mixers EXCEPT ![b] = @ + 1]
                     /\ IF mThread[b]
                        THEN /\ handler' = [handler EXCEPT !.pc = "terminated"]
                             /\ UNCHANGED <<mThread, popped>>
                        ELSE /\ mThread' = [mThread EXCEPT ![b] = TRUE]
                             /\ Handled("S_OK")
    /\ UNCHANGED <<lafVars, dedVars, mOpenStatus, destroyed, mMsgQueue, promises, callers,
                   Connected, pushed>>

\* stopProxy: if(mKillNow.exchange(true) || !mThread.joinable()) return;
\* otherwise the handler goes on to join the thread.
HandleStop ==
    /\ ProcessAlive
    /\ handler.pc = "handle"
    /\ handler.msg.mType = "StopDevice"
    /\ LET b == handler.msg.mProxy
       IN  /\ mKillNow' = [mKillNow EXCEPT ![b] = TRUE]
           /\ IF mKillNow[b] \/ ~mThread[b]
              THEN Handled("S_OK")
              ELSE /\ handler' = [handler EXCEPT !.pc = "join"]
                   /\ UNCHANGED popped
    /\ UNCHANGED <<lafVars, dedVars, mOpenStatus, destroyed, mMsgQueue, promises, callers, mThread,
                   mixers, Connected, pushed>>

\* mThread.join() returns when the thread has left mixerProc.
JoinMixer ==
    /\ ProcessAlive
    /\ handler.pc = "join"
    /\ mixers[handler.msg.mProxy] = 0
    /\ mThread' = [mThread EXCEPT ![handler.msg.mProxy] = FALSE]
    /\ Handled("S_OK")
    /\ UNCHANGED <<lafVars, dedVars, mOpenStatus, destroyed, mMsgQueue, promises, callers, mKillNow,
                   mixers, Connected, pushed>>

\* msg.mPromise.set_value(hr)
PromiseValue(hr) == hr

SetValue ==
    /\ ProcessAlive
    /\ handler.pc = "fulfil"
    /\ promises' = [promises EXCEPT ![handler.msg.id] =
                       [sets |-> @.sets + 1, value |-> PromiseValue(handler.hr)]]
    /\ handler' = [handler EXCEPT !.pc = "pop"]
    /\ UNCHANGED <<lafVars, dedVars, mOpenStatus, destroyed, mMsgQueue, callers, mKillNow, mThread,
                   mixers, Connected, pushed, popped>>

\* One round of the loop of mixerProc: neither flag ends it.
MixerRender(b) ==
    /\ ProcessAlive
    /\ mixers[b] > 0
    /\ ~mKillNow[b] /\ Connected[b]
    /\ UNCHANGED vars

\* while(!mKillNow.load() && mDevice->Connected.load()) ends: the thread
\* leaves mixerProc.
MixerExit(b) ==
    /\ ProcessAlive
    /\ mixers[b] > 0
    /\ mKillNow[b] \/ ~Connected[b]
    /\ mixers' = [mixers EXCEPT ![b] = @ - 1]
    /\ UNCHANGED <<lafVars, dedVars, mOpenStatus, destroyed, mMsgQueue, promises, callers, handler,
                   mKillNow, mThread, Connected, pushed, popped>>

\* The device is disconnected (mDevice->Connected becomes false).
Disconnect(b) ==
    /\ ProcessAlive
    /\ handler.pc \notin {"starting", "exited"}
    /\ Connected[b]
    /\ Connected' = [Connected EXCEPT ![b] = FALSE]
    /\ UNCHANGED <<lafVars, dedVars, mOpenStatus, destroyed, mMsgQueue, promises, callers, handler,
                   mKillNow, mThread, mixers, pushed, popped>>

HandlerStep ==
    HandlerStart \/ PopMessage \/ HandleSimple \/ HandleStart \/ HandleStop
        \/ JoinMixer \/ SetValue

NextIo ==
    \/ \E c \in CallerIds, type \in CallTypes, b \in Backends : PushMessage(c, type, b)
    \/ \E c \in CallerIds, b \in Backends : Destruct(c, b)
    \/ \E c \in CallerIds : FutureGet(c)
    \/ HandlerStep
    \/ \E b \in Backends : MixerRender(b)
    \/ \E b \in Backends : MixerExit(b)
    \/ \E b \in Backends : Disconnect(b)

SpecIo == InitIo /\ [][NextIo]_vars

\* The threads are scheduled: the handler thread, every mixer thread that
\* has to leave its loop, and every caller whose future is ready.
FairIo ==
    /\ WF_vars(HandlerStep)
    /\ \A b \in Backends : WF_vars(MixerExit(b))
    /\ \A c \in CallerIds : WF_vars(FutureGet(c))

SpecIoFair == SpecIo /\ FairIo

(***************************************************************************)
(* readChunk on its own, for every track count LoadLAF lets through: the   *)
(* first chunk of a one-second 8-bit stream whose bitmap enables only      *)
(* tracks the stream has.                                                  *)
(***************************************************************************)
\* The bitmap with the one bit of track t (from 0).
OneTrack(t) ==
    [i \in 1..BitmapBytes |-> IF i = ShiftRight(t, 3) + 1 THEN 2 ^ (t % 8) ELSE 0]

\* Bitmaps that set no bit at or above numTracks: every track, none, the
\* first alone, the last alone, and every track but the last.
WellFormedBitmaps(numTracks) ==
    { AllEnabled(numTracks), ZeroBitmap, OneTrack(0), OneTrack(numTracks - 1),
      [i \in 1..BitmapBytes |->
          AllEnabled(numTracks)[i] - OneTrack(numTracks - 1)[i]] }

InitChunk ==
    /\ IoIdle
    /\ DedIdle
    /\ pc = "chunk"
    /\ err = ""
    /\ file = Header(0, 0, <<>>, 1, 1)
    /\ \E n \in 1..TrackLimit :
          laf = [NoStream EXCEPT !.mNumTracks = n, !.nChannels = n,
                                 !.mSampleRate = 1, !.mSampleCount = 1]
    /\ good = TRUE
    /\ ahead = <<>>
    /\ chunkNo = 0
    /\ mCurrentSample = 0
    /\ mEnabledTracks = ZeroBitmap
    /\ mNumEnabled = 0
    /\ mSampleChunk = InitialChunk(laf)
    /\ mPosTracks = <<>>
    /\ srcState = "Initial"
    /\ processed = 0
    /\ queue = <<>>
    /\ srcPos = <<>>
    /\ pendingError = FALSE
    /\ readLog = <<>>
    /\ submitted = <<>>
    /\ recovered = FALSE
    /\ probe = NoProbe

\* laf->readChunk() on a whole chunk.
ChunkRead ==
    /\ UNCHANGED <<ioVars, dedVars>>
    /\ pc = "chunk"
    /\ \E b \in WellFormedBitmaps(laf.mNumTracks) :
         \E rc \in {readChunk(laf, good, mCurrentSample, mSampleChunk,
                              chunkNo + 1, b, -1, TRUE, <<>>)} :
             /\ pc' = IF rc.assertOk THEN "read" ELSE "aborted"
             /\ err' = IF rc.assertOk THEN err ELSE "bitmap-assert"
             /\ chunkNo' = chunkNo + 1
             /\ mEnabledTracks' = rc.mEnabledTracks
             /\ mNumEnabled' = rc.mNumEnabled
             /\ good' = rc.good
             /\ mSampleChunk' = IF rc.assertOk THEN rc.mSampleChunk ELSE mSampleChunk
             /\ mCurrentSample' = IF rc.assertOk THEN rc.mCurrentSample
                                  ELSE mCurrentSample
             /\ readLog' = IF rc.assertOk
                           THEN <<[n |-> rc.numsamples, atEnd |-> FALSE,
                                   short |-> rc.short]>>
                           ELSE readLog
             /\ UNCHANGED <<file, laf, ahead, mPosTracks, sink, submitted, recovered,
                            probe>>

NextChunk == ChunkRead

SpecChunk == InitChunk /\ [][NextChunk]_vars

(***************************************************************************)
(* The position update of the playing loop on its own: an Objects-mode     *)
(* stream as LoadLAF returns it, the source playing, and any sample offset *)
(* inside the two queued seconds.                                          *)
(***************************************************************************)
\* The longest second, in blocks of FramesPerPos frames.
MaxSeconds == 2

\* The channel counts tried: around the multiples of 16, and the most an
\* Objects-mode file of TrackLimit tracks can hold.
UpdateChannels == {1, 2, 15, 16, 17, 32, 33, 240}

InitUpdate ==
    /\ IoIdle
    /\ DedIdle
    /\ pc = "update"
    /\ err = ""
    /\ file = Header(0, 1, <<>>, FramesPerPos, FramesPerPos)
    /\ \E n \in UpdateChannels, p \in 0..(TrackLimit \div 16),
          k \in 1..MaxSeconds :
          /\ PosCountOk(n, p)
          /\ RateOk("Objects", FramesPerPos * k)
          /\ laf = [NoStream EXCEPT !.mMode = "Objects", !.mNumTracks = n + p,
                                    !.nChannels = n, !.nPos = p,
                                    !.mSampleRate = FramesPerPos * k,
                                    !.mSampleCount = 2 * FramesPerPos * k]
    /\ good = TRUE
    /\ ahead = <<>>
    /\ chunkNo = 0
    /\ mCurrentSample = 0
    /\ mEnabledTracks = ZeroBitmap
    /\ mNumEnabled = 0
    /\ mSampleChunk = <<>>
    /\ mPosTracks = InitialWindows(laf)
    /\ srcState = "Playing"
    /\ processed = 0
    /\ queue = <<>>
    /\ srcPos = [i \in 1..laf.nChannels |-> StaticPos]
    /\ pendingError = FALSE
    /\ readLog = <<>>
    /\ submitted = <<>>
    /\ recovered = FALSE
    /\ probe = [offset |-> -1]

\* The loop of alSource3f calls of lines 546-559 for a sample offset the
\* source reports.
PositionUpdate ==
    /\ UNCHANGED <<ioVars, dedVars>>
    /\ pc = "update"
    /\ \E off \in 0..(2 * laf.mSampleRate - 1), fault \in BOOLEAN :
          /\ srcPos' = PositionsSet(PositionsAt(off, fault))
          /\ probe' = [offset |-> off]
          /\ pc' = IF UpdateFaults(off, fault) THEN "aborted" ELSE "updated"
    /\ UNCHANGED <<err, file, laf, stream, srcState, processed, queue,
                   pendingError, submitted, recovered>>

NextUpdate == PositionUpdate

SpecUpdate == InitUpdate /\ [][NextUpdate]_vars

(***************************************************************************)
(* PlayLAF with its scheduling.  The program's thread runs the loops of    *)
(* lines 525-674 without blocking: it sleeps 10 ms between polls, and a    *)
(* buffer of a stream with a rate holds a second of audio, so a processed  *)
(* buffer is seen and refilled before the next one ends.  A buffer of a    *)
(* stream of rate 0 holds nothing and the source is through with it at     *)
(* once: the program refills only if the source stays with a processed     *)
(* buffer.  The sink finishes the buffer that a playing source plays, and  *)
(* a paused source is resumed.  With no channel the queries read whatever  *)
(* mChannels.back() gives, and no tick is owed.                            *)
(***************************************************************************)
\* The guard of TickInitial on a stream with a channel.
TickInitialReady ==
    InLoop /\ laf.nChannels > 0 /\ srcState = "Initial"

\* The tick that finds a processed buffer and reads a chunk (line 563): not
\* the one that ends in its position update, before the test of line 563.
Refill ==
    /\ TickPlaying
    /\ err' # "segv"
    /\ chunkNo' # chunkNo \/ pc' # pc \/ processed' # processed \/ srcState' # srcState

\* The guard of Refill on a stream with a channel.
RefillReady ==
    /\ InLoop
    /\ laf.nChannels > 0
    /\ srcState \in {"Playing", "Paused"}
    /\ processed > 0

\* Weak fairness of every branch of the loops and of the resumption of a
\* paused source; strong fairness of the end of a buffer and, when the
\* buffers hold a second, of the refill, which the other thread disables
\* again and again.  The fairness of the two ticks that read chunks is
\* written out with their guards.
FairPlay ==
    /\ WF_vars(TickStopped)
    /\ WF_vars(LoopExit)
    /\ WF_vars(DrainEnd /\ ~DrainReady)
    /\ ([]<>~TickInitialReady \/ []<><<TickInitial>>_vars)
    /\ ([]<>~RefillReady \/ []<><<Refill>>_vars)
    /\ (<>[]~(RefillReady /\ laf.mSampleRate > 0) \/ []<><<Refill>>_vars)
    /\ SF_vars(SinkEndBuffer)
    /\ WF_vars(SinkResume)

\* The files played under FairPlay: no track or one 16-bit channel at every
\* rate and sample count, and one 8-bit channel with its position track at
\* 48 Hz and at rate 0.
FairFiles ==
    { f \in ChannelsFiles : f.numTracks <= 1 }
    \cup { f \in ObjectsFiles : f.numTracks = 2 /\ f.quality = 0 }
    \cup EmptyWindowFiles

InitFair == InitWith(FairFiles)

SpecFair == InitFair /\ [][Next]_vars /\ FairPlay

(***************************************************************************)
(* The parameter functions of the dedicated effect (alcDedicated.c).  Each *)
(* is an operator from the effect and the arguments to the effect after    *)
(* the call, the error given to alSetError (AL_NO_ERROR if the call gives  *)
(* none) and the value written through the result pointer.                 *)
(***************************************************************************)
MaxGain == 2

FloatValues == {Fin(n) : n \in (-MaxGain)..MaxGain} \cup {PosInf, NegInf, NaN}
IntValues == {ALint(n) : n \in -1..1}

\* The parameter of the effect, and two that it does not have.
DedParams == {"AL_DEDICATED_GAIN", "AL_EFFECT_TYPE", "AL_REVERB_GAIN"}

DedTypes == {"AL_EFFECT_DEDICATED_DIALOGUE", "AL_EFFECT_DEDICATED_LOW_FREQUENCY_EFFECT"}

\* Variant of GeZero that takes every value.
GeZeroAny(val) == TRUE

\* val >= 0.0f: false for a NaN.
GeZero(val) == val.k # "nan" /\ val.v >= 0

isfinite(val) == val.k = "fin"

DedResult(eff, error, out) == [effect |-> eff, error |-> error, out |-> out]

ded_SetParami(eff, param, val) == DedResult(eff, "AL_INVALID_ENUM", Unwritten)

ded_SetParamiv(eff, param, vals) == ded_SetParami(eff, param, vals[1])

ded_SetParamf(eff, param, val) ==
    IF param = "AL_DEDICATED_GAIN"
    THEN IF GeZero(val) /\ isfinite(val)
         THEN DedResult([eff EXCEPT !.Gain = val], "AL_NO_ERROR", Unwritten)
         ELSE DedResult(eff, "AL_INVALID_VALUE", Unwritten)
    ELSE DedResult(eff, "AL_INVALID_ENUM", Unwritten)

ded_SetParamfv(eff, param, vals) == ded_SetParamf(eff, param, vals[1])

ded_GetParami(eff, param) == DedResult(eff, "AL_INVALID_ENUM", Unwritten)

ded_GetParamiv(eff, param) == ded_GetParami(eff, param)

ded_GetParamf(eff, param) ==
    IF param = "AL_DEDICATED_GAIN"
    THEN DedResult(eff, "AL_NO_ERROR", eff.Gain)
    ELSE DedResult(eff, "AL_INVALID_ENUM", Unwritten)

ded_GetParamfv(eff, param) == ded_GetParamf(eff, param)

\* The vals arrays of the vector calls: one or two elements.
Vectors(S) == {<<x>> : x \in S} \cup {<<x, y>> : x \in S, y \in S}

\* A dedicated effect whose gain is one a set call accepts.
InitDed ==
    /\ LafIdle
    /\ IoIdle
    /\ effect \in [type : DedTypes, Gain : {Fin(n) : n \in 0..MaxGain}]
    /\ alError = "AL_NO_ERROR"
    /\ paramOut = Unwritten
    /\ gains = <<>>
    /\ call = NoCall

\* The call op(param, val) has returned r.
Returned(op, param, val, r) ==
    /\ call' = [op |-> op, param |-> param, val |-> val, old |-> effect]
    /\ effect' = r.effect
    /\ alError' = r.error
    /\ paramOut' = r.out
    /\ UNCHANGED <<lafVars, ioVars, gains>>

SetParami ==
    \E param \in DedParams, val \in IntValues :
        Returned("ded_SetParami", param, val, ded_SetParami(effect, param, val))

SetParamiv ==
    \E param \in DedParams, vals \in Vectors(IntValues) :
        Returned("ded_SetParamiv", param, vals[1], ded_SetParamiv(effect, param, vals))

SetParamf ==
    \E param \in DedParams, val \in FloatValues :
        Returned("ded_SetParamf", param, val, ded_SetParamf(effect, param, val))

SetParamfv ==
    \E param \in DedParams, vals \in Vectors(FloatValues) :
        Returned("ded_SetParamfv", param, vals[1], ded_SetParamfv(effect, param, vals))

GetParami ==
    \E param \in DedParams :
        Returned("ded_GetParami", param, Unwritten, ded_GetParami(effect, param))

GetParamiv ==
    \E param \in DedParams :
        Returned("ded_GetParamiv", param, Unwritten, ded_GetParamiv(effect, param))

GetParamf ==
    \E param \in DedParams :
        Returned("ded_GetParamf", param, Unwritten, ded_GetParamf(effect, param))

GetParamfv ==
    \E param \in DedParams :
        Returned("ded_GetParamfv", param, Unwritten, ded_GetParamfv(effect, param))

NextDed ==
    \/ SetParami
    \/ SetParamiv
    \/ SetParamf
    \/ SetParamfv
    \/ GetParami
    \/ GetParamiv
    \/ GetParamf
    \/ GetParamfv

SpecDed == InitDed /\ [][NextDed]_vars

(***************************************************************************)
(* DedicatedCreate and DedicatedUpdate (alcDedicated.c).  The gains are an *)
(* array over the output channels 0 .. MaxChannels-1.  MaxChannels, LFE    *)
(* and ComputeAngleGains are declared outside the file.                    *)
(***************************************************************************)
MaxChannels == 9
LFE == 3
ChannelIds == 0..(MaxChannels - 1)

\* The product of two finite ALfloat values.
Mul(a, b) == Fin(a.v * b.v)

\* No ALdedicatedState: none was allocated, or it was freed.
NoState == <<>>

\* state = malloc(sizeof(*state)); if(!state) return NULL; otherwise
\* for(s = 0;s < MaxChannels;s++) state->gains[s] = 0.0f;
DedicatedCreate(allocated) ==
    IF allocated THEN [s \in ChannelIds |-> Fin(0)] ELSE NoState

\* free(state)
DedicatedDestroy(g) == NoState

\* Variant of ResetGains that leaves the gains of the last update.
ResetGainsNone(g) == g

\* for(s = 0;s < MaxChannels;s++) state->gains[s] = 0.0f;
ResetGains(g) == [s \in ChannelIds |-> Fin(0)]

\* ComputeAngleGains(device, angle, hwidth, ingain, gains): the device gives
\* each channel its coefficient for a sound at the angle (0 for a channel
\* that takes no part); the gains of the channels that take part are set
\* to the coefficient times ingain.
ComputeAngleGains(device, angle, hwidth, ingain, g) ==
    [s \in ChannelIds |->
        IF device.coeff[s] # 0 THEN Mul(Fin(device.coeff[s]), ingain) ELSE g[s]]

\* The devices: the front-centre coefficients of a mono layout, of a stereo
\* layout and of a layout with a centre speaker between two others.
Devices ==
    { [coeff |-> [s \in ChannelIds |-> IF s \in front THEN c ELSE 0]] :
        front \in {{2}, {0, 1}, {0, 1, 2}}, c \in 1..2 }

\* The effect types a slot can hold: the two dedicated ones and another.
SlotTypes == DedTypes \cup {"AL_EFFECT_NULL"}

Slots ==
    [ Gain : {Fin(n) : n \in 0..MaxGain},
      effect : [type : SlotTypes, Gain : {Fin(n) : n \in 0..MaxGain}] ]

\* The gains after DedicatedUpdate(effect, device, Slot).
DedicatedUpdate(g, device, Slot) ==
    LET Gain == Mul(Slot.Gain, Slot.effect.Gain)
        zero == ResetGains(g)
    IN  IF Slot.effect.type = "AL_EFFECT_DEDICATED_DIALOGUE"
        THEN ComputeAngleGains(device, 0, 0, Gain, zero)
        ELSE IF Slot.effect.type = "AL_EFFECT_DEDICATED_LOW_FREQUENCY_EFFECT"
        THEN [zero EXCEPT ![LFE] = Gain]
        ELSE zero

\* No effect state has been created.
InitGains ==
    /\ LafIdle
    /\ IoIdle
    /\ effect \in [type : DedTypes, Gain : {Fin(n) : n \in 0..MaxGain}]
    /\ alError = "AL_NO_ERROR"
    /\ paramOut = Unwritten
    /\ gains = NoState
    /\ call = NoCall

\* DedicatedCreate(): the state with its gains, or NULL when malloc fails.
Create ==
    /\ gains = NoState
    /\ \E allocated \in BOOLEAN :
         /\ gains' = DedicatedCreate(allocated)
         /\ call' = [op |-> "DedicatedCreate", allocated |-> allocated]
    /\ UNCHANGED <<lafVars, ioVars, effect, alError, paramOut>>

\* One update of the effect state from a slot; effect is the slot's effect.
Update ==
    /\ gains # NoState
    /\ \E device \in Devices, Slot \in Slots :
        /\ gains' = DedicatedUpdate(gains, device, Slot)
        /\ effect' = Slot.effect
        /\ call' = [op |-> "DedicatedUpdate", device |-> device, Slot |-> Slot,
                    before |-> gains]
        /\ UNCHANGED <<lafVars, ioVars, alError, paramOut>>

\* state->Destroy(state): the state is freed.
Destroy ==
    /\ gains # NoState
    /\ gains' = DedicatedDestroy(gains)
    /\ call' = [op |-> "DedicatedDestroy", before |-> gains]
    /\ UNCHANGED <<lafVars, ioVars, effect, alError, paramOut>>

NextGains == Create \/ Update \/ Destroy

SpecGains == InitGains /\ [][NextGains]_vars

(***************************************************************************)
(* The demultiplexer on its own: readChunk on a chunk with any bitmap,     *)
(* then prepareTrack for any track and any count, in any order.            *)
(***************************************************************************)
\* The widest stream demultiplexed: its bitmap is two bytes long.
WideTracks == 10

\* Streams of one chunk, of every quality and track count, and 16-bit
\* streams of a chunk and one frame more.
DemuxStreams ==
    { [ mQuality |-> q, mMode |-> "Channels", mSampleRate |-> r,
        mSampleCount |-> r, mSampleCountHigh |-> 0, mNumTracks |-> n,
        nChannels |-> n, nPos |-> 0 ] :
        q \in Qualities, r \in 1..MaxRate, n \in (1..(MaxTracks + 1)) \cup {WideTracks} }
    \cup { [ mQuality |-> "s16", mMode |-> "Channels", mSampleRate |-> r,
             mSampleCount |-> r + 1, mSampleCountHigh |-> 0,
             mNumTracks |-> n, nChannels |-> n, nPos |-> 0 ] :
             r \in 1..MaxRate, n \in 1..MaxTracks }

\* The bitmaps of a chunk: for at most 8 tracks every bitmap and one with a
\* bit no track has; for more, three first bytes and every second byte.
DemuxBitmaps(numTracks) ==
    IF numTracks <= 8
    THEN { [i \in 1..BitmapBytes |-> IF i = 1 THEN b ELSE 0] :
             b \in 0..Min(2 ^ numTracks, ByteRange - 1) }
    ELSE { [i \in 1..BitmapBytes |-> IF i = 1 THEN b ELSE IF i = 2 THEN h ELSE 0] :
             b \in {0, 165, 255}, h \in 0..(2 ^ (numTracks - 8) - 1) }

InitDemux ==
    /\ IoIdle
    /\ DedIdle
    /\ pc = "demux"
    /\ err = ""
    /\ file = Header(0, 0, <<>>, 0, 0)
    /\ laf \in DemuxStreams
    /\ good = TRUE
    /\ ahead = <<>>
    /\ chunkNo = 0
    /\ mCurrentSample = 0
    /\ mEnabledTracks = ZeroBitmap
    /\ mNumEnabled = 0
    /\ mSampleChunk = InitialChunk(laf)
    /\ mPosTracks = <<>>
    /\ srcState = "Initial"
    /\ processed = 0
    /\ queue = <<>>
    /\ srcPos = <<>>
    /\ pendingError = FALSE
    /\ readLog = <<>>
    /\ submitted = <<>>
    /\ recovered = FALSE
    /\ probe = NoProbe

\* One readChunk call on a whole chunk.
DemuxRead ==
    /\ UNCHANGED <<ioVars, dedVars>>
    /\ pc \in {"demux", "prepared"}
    /\ ~isAtEnd(laf, mCurrentSample)
    /\ \E b \in DemuxBitmaps(laf.mNumTracks) :
         LET rc == readChunk(laf, good, mCurrentSample, mSampleChunk,
                             chunkNo + 1, b, -1, TRUE, <<>>)
         IN  /\ pc' = IF rc.assertOk THEN "read" ELSE "aborted"
             /\ err' = IF rc.assertOk THEN err ELSE "bitmap-assert"
             /\ chunkNo' = chunkNo + 1
             /\ mEnabledTracks' = rc.mEnabledTracks
             /\ mNumEnabled' = rc.mNumEnabled
             /\ good' = rc.good
             /\ mSampleChunk' = IF rc.assertOk THEN rc.mSampleChunk ELSE mSampleChunk
             /\ mCurrentSample' = IF rc.assertOk THEN rc.mCurrentSample
                                  ELSE mCurrentSample
             /\ readLog' = IF rc.assertOk
                           THEN <<[n |-> rc.numsamples, atEnd |-> FALSE,
                                   short |-> rc.short]>>
                           ELSE readLog
             /\ UNCHANGED <<file, laf, ahead, mPosTracks, sink, submitted, recovered,
                            probe>>

\* One prepareTrack call; probe keeps what was asked and the span returned.
DemuxPrepare ==
    /\ UNCHANGED <<ioVars, dedVars>>
    /\ pc = "read"
    /\ \E t \in 0..(laf.mNumTracks - 1), n \in 0..(laf.mSampleRate + 1) :
         LET r == prepareTrack(laf, mEnabledTracks, mNumEnabled, mSampleChunk, t, n)
         IN  /\ pc' = IF r.throws THEN "failed"
                       ELSE IF ~r.assertOk THEN "aborted" ELSE "prepared"
             /\ err' = IF r.throws THEN "24-bit"
                        ELSE IF ~r.assertOk THEN "copy-assert" ELSE err
             /\ mSampleChunk' = r.mSampleChunk
             /\ probe' = IF r.throws THEN NoProbe
                         ELSE [track |-> t, count |-> n, span |-> r.span,
                               copies |-> r.copies, idx |-> r.idx, step |-> r.step]
             /\ UNCHANGED <<file, laf, good, ahead, chunkNo, mCurrentSample,
                            mEnabledTracks, mNumEnabled, mPosTracks, readLog, sink,
                            submitted, recovered>>

NextDemux ==
    \/ DemuxRead
    \/ DemuxPrepare

SpecDemux == InitDemux /\ [][NextDemux]_vars

(***************************************************************************)
(* Properties.                                                             *)
(***************************************************************************)
RECURSIVE Consumed(_)
\* The frames returned by the first k readChunk calls.
Consumed(k) == IF k = 0 THEN 0 ELSE Consumed(k - 1) + readLog[k].n

\* C1: the readChunk calls made before the end of the stream cut the frames
\* 0 .. mSampleCount-1 into consecutive ranges: each call returns
\* min(mSampleRate, mSampleCount - consumed), which is at most mSampleRate
\* frames and at least one, never runs past mSampleCount, is fewer than
\* mSampleRate frames only when it reaches mSampleCount, and mCurrentSample
\* is the sum of what the calls returned.
C1_ReadChunkPartition ==
    (pc \notin {"start", "rejected"}) =>
        /\ mCurrentSample = Consumed(Len(readLog))
        /\ mCurrentSample <= laf.mSampleCount
        /\ \A j \in 1..Len(readLog) :
             ~readLog[j].atEnd =>
                 /\ readLog[j].n = IF laf.mSampleCount - Consumed(j - 1) < laf.mSampleRate
                                   THEN laf.mSampleCount - Consumed(j - 1)
                                   ELSE laf.mSampleRate
                 /\ readLog[j].n <= laf.mSampleRate
                 /\ laf.mSampleRate > 0 => readLog[j].n > 0
                 /\ Consumed(j) <= laf.mSampleCount
                 /\ readLog[j].n < laf.mSampleRate => Consumed(j) = laf.mSampleCount

\* Three calls before the end, the last one returning the one frame left.
C1_Witness ==
    /\ Len(readLog) = 3
    /\ \A j \in 1..3 : ~readLog[j].atEnd
    /\ readLog[2].n = 2
    /\ readLog[3].n = 1
    /\ mCurrentSample = laf.mSampleCount

\* The tracks whose bit is set in mEnabledTracks.
EnabledNow == { EnabledSeq(mEnabledTracks)[j] : j \in 1..Len(EnabledSeq(mEnabledTracks)) }

\* C2: for a stream of 8-bit, 16-bit or float samples, prepareTrack(t, n) on
\* an enabled track t returns the first min(mSampleRate, n) samples the
\* chunk holds for track t, whatever the bitmap of the chunk is.
C2_DemuxLeftInverse ==
    (pc = "prepared" /\ probe.track \in EnabledNow) =>
        probe.span = TrackBytes(chunkNo, probe.track,
                                IF probe.count < laf.mSampleRate THEN probe.count
                                ELSE laf.mSampleRate,
                                BytesFromQuality(laf.mQuality))

\* Track 9 of ten, with tracks below it disabled in both bitmap bytes, asked
\* for a whole chunk of floats.
C2_Witness ==
    /\ pc = "prepared"
    /\ laf.mNumTracks = WideTracks
    /\ laf.mQuality = "f32"
    /\ probe.track = 9
    /\ probe.track \in EnabledNow
    /\ 8 \notin EnabledNow
    /\ 1 \notin EnabledNow
    /\ 0 \in EnabledNow
    /\ probe.count = laf.mSampleRate
    /\ laf.mSampleRate = MaxRate
    /\ Len(probe.span) = 4 * MaxRate

\* C3: prepareTrack(t, n) on a track the bitmap disables returns
\* min(mSampleRate, n) samples of silence: every byte is 0x80 for 8-bit
\* samples and 0 for the others, and no byte of the chunk.
C3_DisabledIsSilence ==
    (pc = "prepared" /\ probe.track \notin EnabledNow) =>
        /\ Len(probe.span) = BytesFromQuality(laf.mQuality)
                               * (IF probe.count < laf.mSampleRate THEN probe.count
                                  ELSE laf.mSampleRate)
        /\ \A p \in 1..Len(probe.span) :
             probe.span[p] = IF laf.mQuality = "s8" THEN 128 ELSE 0

\* A disabled track between two enabled ones, 8-bit, a whole chunk asked.
C3_Witness ==
    /\ pc = "prepared"
    /\ laf.mQuality = "s8"
    /\ laf.mNumTracks = 3
    /\ probe.track = 1
    /\ EnabledNow = {0, 2}
    /\ probe.count = laf.mSampleRate
    /\ Len(probe.span) = MaxRate

\* The defects of a file header LoadLAF has to refuse.
Defective(f) ==
    \/ ~f.magicOk
    \/ f.quality \notin 0..3
    \/ f.mode \notin 0..1
    \/ f.numTracks > 256
    \/ f.mode = 1 /\ f.rate % 48 # 0

\* C4: a file with a wrong magic marker, an unknown quality or mode code,
\* more than 256 tracks, or in Objects mode a sample rate that is not a
\* multiple of 48, is refused by LoadLAF: no stream is built and readChunk
\* is never called.
C4_DefectiveRejected ==
    Defective(file) =>
        /\ pc \in {"start", "rejected"}
        /\ laf = NoStream
        /\ chunkNo = 0
        /\ readLog = <<>>
        /\ mCurrentSample = 0

\* An Objects-mode file at 49 Hz, refused by the last check of LoadLAF.
C4_Witness ==
    /\ pc = "rejected"
    /\ err = "rate"
    /\ file.mode = 1
    /\ file.rate = FramesPerPos + 1
    /\ file.magicOk /\ file.quality \in 0..3 /\ file.numTracks <= 256

\* The number of chunks of a stream.
Chunks(L) == (L.mSampleCount + L.mSampleRate - 1) \div L.mSampleRate

\* C5 (as the specification states it): a stream of k >= 1 chunks played to
\* its end without the sink stopping has had, for each channel, exactly k
\* buffers submitted, the j-th with the frames of chunk j.
C5_OneSubmissionPerChunk ==
    ( /\ pc = "done"
      /\ ~recovered
      /\ laf.mSampleRate > 0
      /\ laf.mSampleCount > 0 ) =>
        \A i \in 1..Len(submitted) :
            /\ Len(submitted[i]) = Chunks(laf)
            /\ \A j \in 1..Len(submitted[i]) :
                 /\ submitted[i][j].chunk = j
                 /\ submitted[i][j].frames
                      = Min(laf.mSampleRate, laf.mSampleCount - (j - 1) * laf.mSampleRate)

\* The histories tell every chunk read so far from the others.
ToldApart == chunkNo <= ReadLimit

\* C6: on every channel the queued buffers are in the order in which their
\* chunks were read, they are the newest submissions of the channel, and
\* all channels queue the same chunks.  (For as long as the histories
\* tell the chunks apart.)
C6_QueueFifo ==
    ToldApart => \A i \in 1..Len(queue) :
        LET q == queue[i]
            s == submitted[i]
        IN  /\ \A j \in 1..(Len(q) - 1) : q[j].chunk < q[j + 1].chunk
            /\ Len(q) <= Len(s)
            /\ \A j \in 1..Len(q) : q[j] = s[Len(s) - Len(q) + j]
            /\ \A h \in 1..Len(queue) :
                 /\ Len(queue[h]) = Len(q)
                 /\ \A j \in 1..Len(q) : queue[h][j].chunk = q[j].chunk

\* Two channels, chunks 2 and 3 queued after a refill, chunk 3 playing.
C6_Witness ==
    /\ Len(queue) = 2
    /\ Len(queue[1]) = 2
    /\ queue[1][1].chunk = 2
    /\ queue[2][2].chunk = 3
    /\ processed = 1
    /\ srcState = "Playing"

\* C7 (as the specification states it): every window entry a position
\* update reads was decoded from the chunk whose audio is playing at the
\* offset of the update.
C7_PositionsOfPlayingChunk ==
    (pc \in {"loop", "drain", "done"} /\ laf.nPos > 0) =>
        probe.read \subseteq {probe.playing}

\* C8: the frames submitted on a channel never exceed mSampleCount, every
\* buffer holds exactly its frames, and once the stream has been read to
\* its end the frames submitted on each channel add up to mSampleCount.
C8_FramesSubmitted ==
    (pc \in {"loop", "drain", "done", "failed", "aborted"}) =>
        \A i \in 1..Len(submitted) :
            LET s == submitted[i]
            IN  /\ FramesBefore(s, Len(s)) <= laf.mSampleCount
                /\ \A j \in 1..Len(s) :
                     Len(s[j].data) = s[j].frames * BytesFromQuality(laf.mQuality)
                /\ (pc \in {"drain", "done"} /\ isAtEnd(laf, mCurrentSample)) =>
                       FramesBefore(s, Len(s)) = laf.mSampleCount

\* A stream of five frames at rate 2 played to its end on two channels: the
\* buffers hold 2, 2 and 1 frames.
C8_Witness ==
    /\ pc = "done"
    /\ laf.mSampleCount = 5
    /\ laf.mSampleRate = 2
    /\ Len(submitted) = 2
    /\ Len(submitted[2]) = 3
    /\ submitted[2][3].frames = 1
    /\ FramesBefore(submitted[2], 3) = 5

\* C9 (as the specification states it): a 24-bit file is never read: no
\* readChunk call is made, mCurrentSample stays 0 and no buffer is submitted.
C9_NoRead24Bit ==
    (pc # "start" /\ file.quality = 3) =>
        /\ readLog = <<>>
        /\ mCurrentSample = 0
        /\ chunkNo = 0
        /\ \A i \in 1..Len(submitted) : submitted[i] = <<>>

\* C10 (as the specification states it): a file that ends inside its header
\* is refused, a read before the end of the stream that comes up short ends
\* the program with an error, and no buffer of that chunk is submitted.
C10_ShortReadFails ==
    /\ file.size < HeaderLen(file.numTracks) => pc \in {"start", "rejected"}
    /\ \A j \in 1..Len(readLog) :
         (readLog[j].short /\ ~readLog[j].atEnd) =>
             /\ pc \in {"failed", "aborted"}
             /\ \A i \in 1..Len(submitted) :
                  \A h \in 1..Len(submitted[i]) : submitted[i][h].chunk # j

\* C11 (as the specification states it): when the loop is left with unread
\* stream data because the source reported a state that is none of Initial,
\* Playing, Paused and Stopped, the run ends with a reported failure.
C11_OtherStateReported ==
    (pc = "done" /\ laf.nChannels > 0 /\ ~isAtEnd(laf, mCurrentSample)) =>
        err # ""

\* C12: a step the program takes when the source is stopped and stream data
\* is left restarts the sources and does nothing else: the loop goes on, no
\* chunk is read, no buffer is submitted, unqueued or queued, and the
\* position windows and positions stay as they are.
C12_StoppedRestartOnly ==
    [][ ( /\ pc = "loop"
          /\ ~isAtEnd(laf, mCurrentSample)
          /\ laf.nChannels > 0
          /\ srcState = "Stopped"
          /\ ~TickOther ) =>
            /\ srcState' = "Playing"
            /\ pc' = "loop"
            /\ err' = err
            /\ UNCHANGED stream
            /\ UNCHANGED <<queue, submitted, srcPos>> ]_vars

\* An Objects-mode stream restarted after an underrun with a chunk left to
\* read: both buffers are still queued and none is processed.
C12_Witness ==
    /\ recovered
    /\ pc = "loop"
    /\ srcState = "Playing"
    /\ processed = 0
    /\ laf.nPos > 0
    /\ chunkNo = 2
    /\ mCurrentSample < laf.mSampleCount
    /\ Len(queue[1]) = 2
    /\ Len(submitted[1]) = 2

\* C13 (as the specification states it): no readChunk call is made once the
\* stream is at its end, hence no buffer is submitted from such a call, and
\* playback that has read the whole stream ends only when the source is no
\* longer playing.
C13_NoReadAfterEnd ==
    /\ \A j \in 1..Len(readLog) : ~readLog[j].atEnd
    /\ \A i \in 1..Len(submitted) :
         \A h \in 1..Len(submitted[i]) :
             submitted[i][h].chunk <= Len(readLog) =>
                 ~readLog[submitted[i][h].chunk].atEnd
    /\ (pc = "done" /\ laf.nChannels > 0 /\ isAtEnd(laf, mCurrentSample)) =>
           srcState # "Playing"

\* The file's first track record is a position marker.
PosFirst(f) == f.numTracks > 0 /\ f.tracks[1] = "pos"

\* An audio-track record of the file comes after a position-track record.
AudioAfterPos(f) ==
    \E i, j \in 1..f.numTracks : i < j /\ f.tracks[i] = "pos" /\ f.tracks[j] # "pos"

\* C14 (as the specification states it): LoadLAF fails on a file whose first track record is a position
\* marker and on a file with an audio-track record after a position-track
\* record; so in every stream it returns the position tracks are the last
\* nPos records of the track list, all records before them are audio tracks,
\* and the first record, when there is one, is an audio track.
C14_PosTracksSuffix ==
    /\ (pc # "start" /\ (PosFirst(file) \/ AudioAfterPos(file))) => pc = "rejected"
    /\ pc \notin {"start", "rejected"} =>
          /\ laf.nChannels + laf.nPos = file.numTracks
          /\ \A i \in 1..file.numTracks :
                file.tracks[i] = (IF i <= laf.nChannels THEN "audio" ELSE "pos")
          /\ file.numTracks > 0 => laf.nChannels > 0

\* C15: in Objects mode the check of the number of position tracks lets the
\* parser go on only if that number is ceil(channels / 16), for every number
\* of channels from 0 to 256 and every number of position tracks the track
\* list can hold: every other pair is refused, and with one channel or more
\* the pair with ceil(channels / 16) position tracks passes.
C15_PosCountCeil ==
    (pc \in {"counted", "rejected"} /\ laf.mMode = "Objects") =>
        /\ pc = "counted" => laf.nPos = (laf.nChannels + 15) \div 16
        /\ laf.nPos # (laf.nChannels + 15) \div 16 => (pc = "rejected" /\ err = "pos-count")
        /\ (laf.nChannels > 0 /\ laf.nPos = (laf.nChannels + 15) \div 16) => pc = "counted"

\* The check has passed a file of 17 channels and two position tracks.
C15_Witness ==
    /\ pc = "counted" /\ laf.mMode = "Objects"
    /\ laf.nChannels = 17 /\ laf.nPos = 2 /\ Len(file.tracks) = 19

\* C16 (as the specification states it): every stream LoadLAF returns for a Channels-mode file has no
\* position track, and LoadLAF fails on every Channels-mode file that holds
\* a position-marker record.
C16_ChannelsNoPosTracks ==
    /\ (pc \notin {"start", "rejected"} /\ laf.mMode = "Channels") =>
          /\ laf.nPos = 0
          /\ mPosTracks = <<>>
          /\ \A i \in 1..file.numTracks : file.tracks[i] # "pos"
    /\ ( /\ pc # "start"
         /\ ModeOf(file.mode) = "Channels"
         /\ \E i \in 1..file.numTracks : file.tracks[i] = "pos" ) => pc = "rejected"

\* What a track's share of n frames of chunk c can be: the file's bytes of
\* the track, or silence when the chunk's bitmap disables the track.
TrackShare(c, t, n) ==
    LET bps == BytesFromQuality(laf.mQuality)
    IN  { TrackBytes(c, t, n, bps), [p \in 1..(n * bps) |-> SilenceByte(laf.mQuality)] }

\* Entry j (from 1) of a position window is the sample of frame f of read k
\* (1 or 2) of the step, decoded from that chunk; beyond the frames of the
\* read the entry is what it was.
DecodedEntry(t, j, k, f) ==
    LET rec == readLog'[Len(readLog) + k]
        bps == BytesFromQuality(laf.mQuality)
        w   == mPosTracks'[t][j]
    IN  IF f < rec.n
        THEN /\ w.from = chunkNo + k
             /\ ~rec.short =>
                   \E share \in TrackShare(chunkNo + k, laf.nChannels + t - 1, rec.n) :
                       w.raw = [b \in 1..bps |-> share[f * bps + b]]
        ELSE w = mPosTracks[t][j]

\* C17: a tick that finds the source in its initial state and runs to its
\* end calls readChunk exactly twice, gives every channel the samples of the
\* first chunk in its first buffer and those of the second chunk in its
\* second buffer, queued in that order, decodes the two chunks of every
\* position track into the first and the second half of its window, and
\* starts the sources; the sources are never started with a channel that
\* has not both buffers queued.  (Streams with at least one channel.)
C17_InitialTick ==
    [][ ( /\ pc = "loop" /\ ~isAtEnd(laf, mCurrentSample) /\ laf.nChannels > 0
          /\ srcState = "Initial" /\ ~TickOther ) =>
            LET rate == laf.mSampleRate
            IN  /\ srcState' \in {"Initial", "Playing"}
                /\ srcState' = "Playing" =>
                      (pc' = "loop" /\ \A i \in 1..laf.nChannels : Len(queue'[i]) = 2)
                /\ pc' = "loop" =>
                      /\ chunkNo' = chunkNo + 2
                      /\ Len(readLog') = Len(readLog) + 2
                      /\ srcState' = "Playing"
                      /\ processed' = 0
                      /\ \A i \in 1..laf.nChannels :
                            /\ Len(queue'[i]) = 2
                            /\ submitted'[i] = submitted[i] \o queue'[i]
                            /\ \A k \in 1..2 :
                                  LET rec == readLog'[Len(readLog) + k]
                                      buf == queue'[i][k]
                                  IN  /\ buf.chunk = chunkNo + k
                                      /\ buf.frames = rec.n
                                      /\ ~rec.short =>
                                            buf.data \in TrackShare(chunkNo + k, i - 1, rec.n)
                      /\ \A t \in 1..laf.nPos : \A j \in 1..(2 * rate) :
                            IF j <= rate THEN DecodedEntry(t, j, 1, j - 1)
                            ELSE DecodedEntry(t, j, 2, j - rate - 1) ]_vars

\* The first tick of an Objects-mode stream is over: both chunks of the
\* channel are queued in order, both halves of the position window are
\* decoded, the sources play and the initial positions are set.
C17_Witness ==
    /\ pc = "loop" /\ srcState = "Playing" /\ processed = 0 /\ ~recovered
    /\ chunkNo = 2 /\ Len(readLog) = 2
    /\ laf.nPos = 1 /\ laf.mSampleRate = FramesPerPos
    /\ Len(queue[1]) = 2 /\ queue[1][1].chunk = 1 /\ queue[1][2].chunk = 2
    /\ queue[1][1].data = TrackBytes(1, 0, laf.mSampleRate, BytesFromQuality(laf.mQuality))
    /\ mPosTracks[1][1].from = 1
    /\ mPosTracks[1][laf.mSampleRate + 1].from = 2
    /\ probe.calls = <<"positions">>

\* C18: with the source playing or paused, a tick reads one chunk when a
\* buffer has been processed and none otherwise.  When it reads one, every
\* channel's oldest buffer leaves its queue, is refilled from that chunk and
\* joins the queue's end, and every position window moves its second half
\* to its first before the chunk is decoded into the second half.  While no
\* buffer has been processed, mCurrentSample, the queues and the position
\* windows do not change.  The number of processed buffers is the one the
\* source reports to the tick.  (Streams with at least one channel, as long
\* as the histories tell the chunks apart.)
C18_PlayingTick ==
    [][ ( /\ pc = "loop" /\ ~isAtEnd(laf, mCurrentSample) /\ laf.nChannels > 0
          /\ srcState \in {"Playing", "Paused"} /\ ToldApart ) =>
            LET rate == laf.mSampleRate
            IN  /\ chunkNo' \in {chunkNo, chunkNo + 1}
                /\ Len(readLog') <= Len(readLog) + 1
                /\ processed = 0 =>
                      /\ UNCHANGED <<mCurrentSample, chunkNo, readLog, mPosTracks>>
                      /\ UNCHANGED <<queue, submitted>>
                /\ chunkNo' # chunkNo => processed > 0
                \* the program's step that runs to its end (the sink's steps
                \* change the state or add a processed buffer; a tick whose
                \* state query fails leaves the loop)
                /\ ( /\ srcState' = srcState /\ processed' <= processed
                     /\ pc' = "loop" )
                      => \E ob \in PollResults :
                            /\ QueryError(ob.error)
                            /\ ob.processed > 0 => chunkNo' = chunkNo + 1
                            /\ ob.processed = 0 =>
                                  /\ UNCHANGED <<mCurrentSample, chunkNo, readLog,
                                                 mPosTracks>>
                                  /\ UNCHANGED <<queue, submitted>>
                /\ (chunkNo' # chunkNo /\ pc' = "loop") =>
                      /\ Len(readLog') = Len(readLog) + 1
                      /\ mCurrentSample' = mCurrentSample + readLog'[Len(readLog')].n
                      /\ processed' = IF srcState' = srcState THEN processed - 1
                                      ELSE Len(queue[laf.nChannels]) - 1
                      /\ \A i \in 1..laf.nChannels :
                            LET buf == queue'[i][Len(queue'[i])]
                                rec == readLog'[Len(readLog')]
                            IN  /\ queue'[i] = Append(Tail(queue[i]), buf)
                                /\ submitted'[i] = Append(submitted[i], buf)
                                /\ buf.chunk = chunkNo + 1
                                /\ buf.frames = rec.n
                                /\ ~rec.short =>
                                      buf.data \in TrackShare(chunkNo + 1, i - 1, rec.n)
                      /\ \A t \in 1..laf.nPos : \A j \in 1..(2 * rate) :
                            IF j <= rate THEN mPosTracks'[t][j] = mPosTracks[t][j + rate]
                            ELSE DecodedEntry(t, j, 1, j - rate - 1) ]_vars

\* A refill of an Objects-mode stream is over: chunks 2 and 3 are queued,
\* the window's first half is what chunk 2 gave and its second half starts
\* with what chunk 3 gave.
C18_Witness ==
    /\ pc = "loop" /\ chunkNo = 3 /\ Len(readLog) = 3 /\ ~recovered
    /\ laf.nPos = 1 /\ laf.mSampleRate = FramesPerPos
    /\ Len(queue[1]) = 2 /\ queue[1][1].chunk = 2 /\ queue[1][2].chunk = 3
    /\ Len(submitted[1]) = 3
    /\ mPosTracks[1][1].from = 2
    /\ mPosTracks[1][laf.mSampleRate + 1].from = 3

\* C19 (as the specification states it): in a stream with position tracks,
\* every tick that finds the source playing or paused sets the position of
\* every channel i (from 0) from the entry (offset / 48) * 16 + (i mod 16) of
\* the window of position track i div 16, whether a buffer has been
\* processed or not, and takes the entry from the window as it is before
\* the tick's refill shifts it.
C19_PositionIndex ==
    [][ (TickPlaying /\ laf.nChannels > 0 /\ laf.nPos > 0) =>
            \E ob \in PollResults :
                /\ QueryError(ob.error)
                /\ probe'.started
                /\ \A i \in 0..(laf.nChannels - 1) :
                      LET win == mPosTracks[(i \div 16) + 1]
                          idx == (ob.offset \div 48) * 16 + (i % 16)
                          p   == srcPos'[i + 1]
                      IN  /\ idx * 3 + 2 < Len(win)
                          /\ p.x = win[idx * 3 + 1]
                          /\ p.y = win[idx * 3 + 2]
                          /\ p.z = [win[idx * 3 + 3] EXCEPT !.div = 0 - @] ]_vars

C21_Convert24BitFails ==
    (pc \in {"converted", "failed"} /\ laf.mQuality = "s24") =>
        /\ pc = "failed"
        /\ err # ""
        /\ \A j \in 1..Len(mPosTracks[1]) : mPosTracks[1][j] \in {ZeroFloat, OldFloat}

\* The safety half of C22, as a predicate on the state.
RequestsInOrder ==
    /\ Len(popped) <= Len(pushed)
    /\ Len(promises) = Len(pushed)
    \* popped once each, in the order of enqueueing; the rest is queued
    /\ \A k \in 1..Len(popped) : popped[k].id = pushed[k]
    /\ Len(mMsgQueue) = Len(pushed) - Len(popped)
    /\ \A j \in 1..Len(mMsgQueue) : mMsgQueue[j].id = pushed[Len(popped) + j]
    \* one request at a time: whatever was popped before the request in the
    \* handler's hands has its promise set
    /\ \A k \in 1..Len(popped) :
          LET inHand == /\ k = Len(popped)
                        /\ handler.pc \in {"handle", "join", "fulfil", "terminated"}
          IN  /\ inHand => (handler.msg.id = popped[k].id /\ promises[popped[k].id].sets = 0)
              /\ ~inHand => promises[popped[k].id].sets = 1
    \* a promise is set at most once, after its request was popped, with the
    \* result of its own proxy operation
    /\ \A id \in 1..Len(promises) :
          /\ promises[id].sets <= 1
          /\ promises[id].sets = 1 =>
                \E k \in 1..Len(popped) :
                    /\ popped[k].id = id
                    /\ popped[k].hr \in {"S_OK", "E_FAIL"}
                    /\ promises[id].value = popped[k].hr
    \* a caller resumes only with the value of its own request
    /\ \A c \in CallerIds :
          /\ (callers[c].pc = "idle" /\ callers[c].req > 0) =>
                (promises[callers[c].req].sets = 1
                    /\ callers[c].got = promises[callers[c].req].value)
          /\ \A d \in CallerIds \ {c} :
                callers[c].req > 0 => callers[c].req # callers[d].req

\* C22: every request pushed by any caller thread is popped exactly once by
\* the handler thread, in the order of enqueueing; the handler works on one
\* request at a time; the promise of a request is set exactly once, with
\* the result of that request; and, the threads being scheduled, a caller
\* waiting on its future resumes unless std::terminate ends the process.
C22_RequestResponse ==
    /\ []RequestsInOrder
    /\ \A c \in CallerIds :
          (callers[c].pc = "waiting") ~> (callers[c].pc = "idle" \/ ~ProcessAlive)

\* Both callers wait: the request of one is in the handler's hands, its
\* result known, the request of the other is queued behind it, and two
\* earlier requests are done.
C22_Witness ==
    /\ callers[1].pc = "waiting" /\ callers[2].pc = "waiting"
    /\ Len(pushed) = 4 /\ Len(popped) = 3 /\ Len(mMsgQueue) = 1
    /\ handler.pc = "fulfil" /\ handler.hr = "E_FAIL"
    /\ promises[1].sets = 1 /\ promises[2].sets = 1

\* C23 (as the specification states it): readChunk never fails its
\* assertion on a chunk whose bitmap sets bits of existing tracks only,
\* whatever the track count from 1 to 256.
C23_WellFormedPassesAssert ==
    pc # "aborted"

\* C24 (as the specification states it): every stream LoadLAF returns has
\* at least one track and at least one channel, so mChannels.back() and the
\* last bitmap byte of readChunk exist.
C24_AcceptedHasChannel ==
    pc \notin {"start", "rejected"} =>
        /\ laf.mNumTracks >= 1
        /\ laf.nChannels >= 1
        /\ BitmapLen(laf.mNumTracks) >= 1

\* C25: in Objects mode, for every sample offset in [0, 2 * mSampleRate) and
\* every channel i, the position update reads inside the position windows:
\* i div 16 is below the number of position tracks and
\* 3 * ((offset / 48) * 16 + (i mod 16)) + 2 is below 2 * mSampleRate, the
\* length of the window; no position is read from outside a window.
C25_UpdateInBounds ==
    pc = "updated" =>
        \A i \in 0..(laf.nChannels - 1) :
            /\ i \div 16 < laf.nPos
            /\ i \div 16 < Len(mPosTracks)
            /\ Len(mPosTracks[(i \div 16) + 1]) = 2 * laf.mSampleRate
            /\ 3 * ((probe.offset \div 48) * 16 + (i % 16)) + 2
                  < Len(mPosTracks[(i \div 16) + 1])
            /\ srcPos[i + 1].x # GarbageFloat
            /\ srcPos[i + 1].y # GarbageFloat
            /\ srcPos[i + 1].z.from # GarbageFloat.from

\* The update at the last frame of the second queued second of a stream of
\* 33 channels: the last channel reads the last floats of the third window.
C25_Witness ==
    /\ pc = "updated"
    /\ laf.nChannels = 33 /\ laf.nPos = 3
    /\ probe.offset = 2 * laf.mSampleRate - 1
    /\ PosOffset(probe.offset, 15) * 3 + 3 = 2 * laf.mSampleRate
    /\ srcPos[33].x = mPosTracks[3][PosOffset(probe.offset, 32) * 3 + 1]

\* C26: from the end of the initial tick, which starts the sources, every
\* channel's queue holds exactly two buffers after every tick, a refill and
\* a restart of stopped sources included, until playback ends, and all
\* channels have had the same number of buffers submitted; while the loop
\* has yet to start the sources every queue is empty.
C26_TwoBuffersQueued ==
    /\ (laf.nChannels > 0 /\ srcState \in {"Playing", "Paused", "Stopped"}) =>
          /\ Len(queue) = laf.nChannels /\ Len(submitted) = laf.nChannels
          /\ \A i \in 1..laf.nChannels :
                /\ Len(queue[i]) = 2
                /\ Len(submitted[i]) >= 2
                /\ \A h \in 1..laf.nChannels : Len(submitted[h]) = Len(submitted[i])
    /\ (laf.nChannels > 0 /\ pc = "loop" /\ srcState = "Initial") =>
          /\ Len(queue) = laf.nChannels /\ Len(submitted) = laf.nChannels
          /\ \A i \in 1..laf.nChannels : queue[i] = <<>> /\ submitted[i] = <<>>

\* Two channels after the initial tick, a restart of the stopped sources
\* and a refill: two buffers queued on each, three submitted on each.
C26_Witness ==
    /\ pc = "loop" /\ laf.nChannels = 2 /\ recovered
    /\ Len(queue[1]) = 2 /\ Len(queue[2]) = 2
    /\ Len(submitted[1]) = 3 /\ Len(submitted[2]) = 3
    /\ queue[2][2].chunk = 3

\* C27: with a sink that finishes every buffer a playing source plays and
\* resumes a paused source, playback of every accepted stream with at least
\* one channel comes to an end.
C27_PlaybackTerminates ==
    (pc = "loop" /\ laf.nChannels > 0) ~> (pc \in {"done", "aborted", "failed"})

\* C28: for every sequence of start and stop requests on a backend, whenever
\* the message thread is between two requests the backend has a mixer
\* thread exactly when its kill flag is false, there is never more than one
\* mixer thread per backend, and handling a request never ends the process.
C28_MixerRunsIffNotKilled ==
    /\ ProcessAlive
    /\ \A b \in Backends :
          /\ mixers[b] <= 1
          /\ handler.pc \in {"pop", "fulfil"} => (mThread[b] <=> ~mKillNow[b])

\* C29: after a float set call with AL_DEDICATED_GAIN and a finite value
\* >= 0 the stored gain is that value and no error was raised; with
\* AL_DEDICATED_GAIN and a negative or non-finite value AL_INVALID_VALUE was
\* raised and the gain is the one stored before; with any other parameter
\* AL_INVALID_ENUM was raised and the gain is the one stored before; after
\* every integer set or get AL_INVALID_ENUM was raised and the effect is
\* unchanged, with nothing written for the caller.
C29_SetParamOutcome ==
    /\ call.op \in {"ded_SetParamf", "ded_SetParamfv"} =>
          /\ effect.type = call.old.type
          /\ IF call.param = "AL_DEDICATED_GAIN"
             THEN IF call.val.k = "fin" /\ call.val.v >= 0
                  THEN effect.Gain = call.val /\ alError = "AL_NO_ERROR"
                  ELSE effect.Gain = call.old.Gain /\ alError = "AL_INVALID_VALUE"
             ELSE effect.Gain = call.old.Gain /\ alError = "AL_INVALID_ENUM"
    /\ call.op \in {"ded_SetParami", "ded_SetParamiv", "ded_GetParami", "ded_GetParamiv"} =>
          /\ alError = "AL_INVALID_ENUM"
          /\ effect = call.old
          /\ paramOut = Unwritten

\* A float set call has replaced gain 1 by gain 2 without an error.
C29_Witness ==
    /\ call.op = "ded_SetParamf" /\ call.param = "AL_DEDICATED_GAIN"
    /\ call.val = Fin(2) /\ call.old.Gain = Fin(1)
    /\ effect.Gain = Fin(2) /\ alError = "AL_NO_ERROR"

\* C30: assert(idx < step) of copySamples never fails: on every call the
\* index passed is the number of enabled tracks below the track asked for,
\* and it is below the step, which is the number of enabled tracks the last
\* readChunk counted.
C30_CopyAssertHolds ==
    /\ err # "copy-assert"
    /\ (pc = "prepared" /\ probe.copies) =>
          /\ TrackEnabled(mEnabledTracks, probe.track)
          /\ probe.idx = Cardinality({u \in 0..(probe.track - 1) :
                                         TrackEnabled(mEnabledTracks, u)})
          /\ probe.step = mNumEnabled
          /\ probe.step = Cardinality({u \in 0..(laf.mNumTracks - 1) :
                                          TrackEnabled(mEnabledTracks, u)})
          /\ probe.idx < probe.step

\* copySamples was called for the last of ten tracks, all of them enabled:
\* index 9, step 10.
C30_Witness ==
    /\ pc = "prepared" /\ probe.copies
    /\ laf.mNumTracks = WideTracks
    /\ probe.track = WideTracks - 1
    /\ probe.idx = WideTracks - 1
    /\ probe.step = WideTracks

\* C31: after every DedicatedUpdate the gains are given by the update's slot
\* and device alone: for the low-frequency type the LFE gain is slot gain
\* times effect gain and every other gain is zero; for the dialogue type
\* the channels of the front-centre direction have their computed gains and
\* every other gain is zero; for any other type every gain is zero.  What
\* the gains were before the update makes no difference.
C31_GainsFromSlotOnly ==
    call.op = "DedicatedUpdate" =>
        LET G == call.Slot.Gain.v * call.Slot.effect.Gain.v
            type == call.Slot.effect.type
        IN  \A s \in 0..8 :
              gains[s] =
                 IF type = "AL_EFFECT_DEDICATED_LOW_FREQUENCY_EFFECT"
                 THEN (IF s = 3 THEN Fin(G) ELSE Fin(0))
                 ELSE IF type = "AL_EFFECT_DEDICATED_DIALOGUE"
                 THEN Fin(call.device.coeff[s] * G)
                 ELSE Fin(0)

\* A dialogue update after a low-frequency update: the LFE gain of the
\* earlier update is gone and the centre channel has its gain.
C31_Witness ==
    /\ call.op = "DedicatedUpdate"
    /\ call.before[3] = Fin(4)
    /\ call.Slot.effect.type = "AL_EFFECT_DEDICATED_DIALOGUE"
    /\ gains[3] = Fin(0)
    /\ gains[2] = Fin(2)

====
